---- MODULE Spec2Model ----
(***************************************************************************)
(* A model of the game-state engine of the dice capture-the-flag game:     *)
(* the Die orientation bookkeeping (src/src/models/die.ts), the board      *)
(* geometry, the GameManager (src/src/game-manager.ts), the AIManager      *)
(* (src/src/ai-manager.ts) and the InputHandler commands.                  *)
(*                                                                         *)
(* World coordinates are the integers the program uses (die size 2, so     *)
(* cell centres are even numbers).  A mesh rotation is represented by the  *)
(* pip value that points in each of the six world directions; every        *)
(* rotation the program applies is a multiple of 90 degrees about a world  *)
(* axis, so this representation is exact.                                  *)
(***************************************************************************)
EXTENDS Integers, Sequences, FiniteSets, TLC

VARIABLES
    gridSize,            \* GameBoard.gridSize, the number of cells along a side of the board
    dice,                \* die id -> the Die object (mesh position/rotation, orientation, topFace, isRolling)
    anims,               \* the animation closures in flight (requestAnimationFrame chains), oldest first
    redDice,             \* GameManager.redDice: the live human dice, in array order
    blueDice,            \* GameManager.blueDice: the live AI dice, in array order
    selectedDice,        \* GameManager.selectedDice
    occupiedPositions,   \* GameManager.occupiedPositions
    isRolling,           \* GameManager.isRolling
    gameOver,            \* GameManager.gameOver
    winner,              \* GameManager.winner ("none" = null)
    ihIsRolling,         \* InputHandler.dice.isRolling (a copy made at construction, then its own flag)
    ihDetached,          \* InputHandler.dice.selectedDice no longer is GameManager.selectedDice
    ihSelectedDice,      \* InputHandler.dice.selectedDice once detached
    pendingRotations,    \* the counter of the rotateSelectedDice call in progress
    isAIMoving,          \* AIManager.isAIMoving
    blueDiceMoveHistory, \* AIManager.blueDiceMoveHistory: die id -> positions
    commands,            \* how many state-changing commands have been issued
    trail,               \* observer: a run of completed operations of the lone die and the state before it
    rankResult,          \* observer: the last value returned by findHighestRankDice / findHighestRankBlueDice
    pathResult           \* observer: the last call of findPath and the value it returned

gameVars == <<gridSize, redDice, blueDice, selectedDice, occupiedPositions, isRolling, gameOver, winner,
              ihIsRolling, ihDetached, ihSelectedDice, pendingRotations, isAIMoving,
              blueDiceMoveHistory, commands>>

vars == <<dice, anims, trail, rankResult, pathResult, gameVars>>

----------------------------------------------------------------------------
(* Bounds of the model *)

\* half-extent (in cells) of the board a lone die is rolled on: cell centres -2*k .. 2*k
DieBoardHalf == 2
\* the same for the lone die whose top face is also set by hand
FaceBoardHalf == 1
\* half the gridSize of the board a match is played on (the shipped board has 2 * 5)
GridHalf == 2
\* the squad size createDice stops at (the shipped limit is 6)
MaxDice == 2
\* how many state-changing commands (human and AI) a match of the model takes
MaxCommands == 2

----------------------------------------------------------------------------
(* Die: orientation *)

DieSize == 2

FaceSlots == {"top", "bottom", "front", "back", "left", "right"}

\* the orientation field initialiser; also the pips of the mesh faces at rotation (0,0,0)
CanonicalOrientation ==
    [top |-> 2, bottom |-> 5, front |-> 3, back |-> 4, right |-> 1, left |-> 6]

North == [x |-> 0, z |-> -1]
South == [x |-> 0, z |-> 1]
West == [x |-> -1, z |-> 0]
East == [x |-> 1, z |-> 0]
Directions == {North, South, West, East}

\* axis.crossVectors((0,1,0), direction), as <<x, y, z>>
RollAxis(direction) == <<direction.z, 0, 0 - direction.x>>

\* mesh.rotateOnWorldAxis(axis, angle) for a unit world axis and a multiple of
\* a quarter turn (quarters = angle / (PI/2), right-handed about the axis)
RECURSIVE RotateOnWorldAxis(_, _, _)
RotateOnWorldAxis(rot, axis, quarters) ==
    IF quarters = 0 THEN rot
    ELSE IF quarters < 0 THEN
        RotateOnWorldAxis(rot, <<0 - axis[1], 0 - axis[2], 0 - axis[3]>>, 0 - quarters)
    ELSE LET once ==
                CASE axis = <<1, 0, 0>> ->
                        \* +X: Y+ -> Z+ -> Y- -> Z-
                        [rot EXCEPT !.front = rot.top, !.bottom = rot.front,
                                    !.back = rot.bottom, !.top = rot.back]
                  [] axis = <<-1, 0, 0>> ->
                        [rot EXCEPT !.back = rot.top, !.bottom = rot.back,
                                    !.front = rot.bottom, !.top = rot.front]
                  [] axis = <<0, 0, 1>> ->
                        \* +Z: X+ -> Y+ -> X- -> Y-
                        [rot EXCEPT !.top = rot.right, !.left = rot.top,
                                    !.bottom = rot.left, !.right = rot.bottom]
                  [] axis = <<0, 0, -1>> ->
                        [rot EXCEPT !.top = rot.left, !.right = rot.top,
                                    !.bottom = rot.right, !.left = rot.bottom]
                  [] axis = <<0, 1, 0>> ->
                        \* +Y: Z+ -> X+ -> Z- -> X-
                        [rot EXCEPT !.right = rot.front, !.back = rot.right,
                                    !.left = rot.back, !.front = rot.left]
                  [] axis = <<0, -1, 0>> ->
                        [rot EXCEPT !.left = rot.front, !.back = rot.left,
                                    !.right = rot.back, !.front = rot.right]
         IN RotateOnWorldAxis(once, axis, quarters - 1)

\* the face values in the order updateTopFaceFromRotation scans the face normals
FaceValues == <<1, 6, 2, 5, 3, 4>>

\* normal.dot(worldUp) of the face with pip value v under rotation rot
Alignment(rot, v) ==
    IF rot.top = v THEN 1 ELSE IF rot.bottom = v THEN -1 ELSE 0

\* the index the scan of updateTopFaceFromRotation ends with (strictly greater wins)
RECURSIVE TopFaceIndex(_, _, _, _)
TopFaceIndex(rot, i, best, bestAlignment) ==
    IF i > Len(FaceValues) THEN best
    ELSE IF best = -1 \/ Alignment(rot, FaceValues[i]) > bestAlignment
         THEN TopFaceIndex(rot, i + 1, i, Alignment(rot, FaceValues[i]))
         ELSE TopFaceIndex(rot, i + 1, best, bestAlignment)

\* variant: the scan result is stored in topFace and orientation.top only
UpdateTopFaceKeepBottom(d) ==
    LET topFaceIndex == TopFaceIndex(d.rot, 1, -1, -2)
    IN IF topFaceIndex # -1
       THEN [d EXCEPT !.topFace = FaceValues[topFaceIndex],
                      !.orientation.top = FaceValues[topFaceIndex]]
       ELSE d

UpdateTopFaceFromRotation(d) ==
    LET topFaceIndex == TopFaceIndex(d.rot, 1, -1, -2)
    IN IF topFaceIndex # -1
       THEN [d EXCEPT !.topFace = FaceValues[topFaceIndex],
                      !.orientation.top = FaceValues[topFaceIndex],
                      !.orientation.bottom = 7 - FaceValues[topFaceIndex]]
       ELSE d

SetTopFace(d, faceValue) ==
    LET reset == CanonicalOrientation
        rotated ==
            CASE faceValue = 1 -> RotateOnWorldAxis(reset, <<0, 0, 1>>, 1)
              [] faceValue = 2 -> reset
              [] faceValue = 3 -> RotateOnWorldAxis(reset, <<1, 0, 0>>, -1)
              [] faceValue = 4 -> RotateOnWorldAxis(reset, <<1, 0, 0>>, 1)
              [] faceValue = 5 -> RotateOnWorldAxis(reset, <<1, 0, 0>>, 2)
              [] faceValue = 6 -> RotateOnWorldAxis(reset, <<0, 0, 1>>, -1)
              [] OTHER -> reset
    IN UpdateTopFaceFromRotation([d EXCEPT !.rot = rotated])

\* new Die({position, initialTopFace}); initialTopFace 0 stands for undefined
NewDie(position, initialTopFace) ==
    LET fresh == [pos |-> position, rot |-> CanonicalOrientation,
                  orientation |-> CanonicalOrientation, topFace |-> 2,
                  isRolling |-> FALSE]
    IN IF initialTopFace # 0 THEN SetTopFace(fresh, initialTopFace) ELSE fresh

UpdateOrientationAfterRoll(o, direction) ==
    IF direction.z < 0 THEN
        [o EXCEPT !.top = o.front, !.front = o.bottom, !.bottom = o.back, !.back = o.top]
    ELSE IF direction.z > 0 THEN
        [o EXCEPT !.top = o.back, !.back = o.bottom, !.bottom = o.front, !.front = o.top]
    ELSE IF direction.x < 0 THEN
        [o EXCEPT !.top = o.right, !.right = o.bottom, !.bottom = o.left, !.left = o.top]
    ELSE IF direction.x > 0 THEN
        [o EXCEPT !.top = o.left, !.left = o.bottom, !.bottom = o.right, !.right = o.top]
    ELSE o

\* variant: both spins shift the side faces the same way
UpdateOrientationOneWay(o, spin) ==
    [o EXCEPT !.front = o.right, !.right = o.back, !.back = o.left, !.left = o.front]

UpdateOrientationAfterRotation(o, spin) ==
    IF spin = "left" THEN
        [o EXCEPT !.front = o.right, !.right = o.back, !.back = o.left, !.left = o.front]
    ELSE
        [o EXCEPT !.front = o.left, !.left = o.back, !.back = o.right, !.right = o.front]

----------------------------------------------------------------------------
(* Die: roll and rotateInPlace *)

Abs(n) == IF n < 0 THEN 0 - n ELSE n

Moved(position, direction, size) ==
    [x |-> position.x + direction.x * size, z |-> position.z + direction.z * size]

WouldGoOutOfBounds(d, direction, boundaryLimit) ==
    LET newPosition == Moved(d.pos, direction, DieSize)
    IN Abs(newPosition.x) > boundaryLimit \/ Abs(newPosition.z) > boundaryLimit

\* Die.roll returns true
RollAccepted(d, direction, boundaryLimit) ==
    ~d.isRolling /\ ~WouldGoOutOfBounds(d, direction, boundaryLimit)

\* what Die.roll has done to the die when it returns
Roll(d, direction, boundaryLimit) ==
    IF RollAccepted(d, direction, boundaryLimit) THEN [d EXCEPT !.isRolling = TRUE] ELSE d

\* A roll animation moves the mesh from startPosition to targetPosition (one
\* cell, 2 units).  What the program reads of a mesh position is whether it is
\* within 0.1 of a cell centre and which cell it rounds to, so a roll in flight
\* is in one of four phases:
\*   1  within 0.1 of the start cell (the frame run by roll() itself)
\*   2  nearer the start cell, more than 0.1 away from it
\*   3  nearer the target cell, more than 0.1 away from it
\*   4  within 0.1 of the target cell
PhaseStart == 1
PhaseLeaving == 2
PhaseArriving == 3
PhaseEnd == 4

\* the closure animateRoll keeps: what it captured when the roll started
RollAnim(id, d, direction, onComplete) ==
    [die |-> id, kind |-> "roll", direction |-> direction, spin |-> "none",
     startPosition |-> d.pos, targetPosition |-> Moved(d.pos, direction, DieSize),
     initialRotation |-> d.rot, phase |-> PhaseStart, onComplete |-> onComplete]

\* variant: rotateInPlace without the isRolling test
RotateAcceptedWhileRolling(d) == TRUE

\* Die.rotateInPlace returns true
RotateAccepted(d) == ~d.isRolling

RotateAnim(id, d, spin, onComplete) ==
    [die |-> id, kind |-> "rotate", direction |-> [x |-> 0, z |-> 0], spin |-> spin,
     startPosition |-> d.pos, targetPosition |-> d.pos,
     initialRotation |-> d.rot, phase |-> PhaseStart, onComplete |-> onComplete]

\* the last frame of animateRoll (elapsed >= duration), before onComplete
RollFinished(d, a) ==
    LET turned == [d EXCEPT !.pos = a.targetPosition,
                            !.rot = RotateOnWorldAxis(a.initialRotation, RollAxis(a.direction), 1),
                            !.orientation = UpdateOrientationAfterRoll(d.orientation, a.direction)]
    IN [UpdateTopFaceFromRotation(turned) EXCEPT !.isRolling = FALSE]

\* variant: animateRotation turns the mesh about the X axis
RotationFinishedTumbling(d, a) ==
    LET turned == [d EXCEPT !.rot = RotateOnWorldAxis(a.initialRotation, <<1, 0, 0>>,
                                                      IF a.spin = "left" THEN 1 ELSE -1),
                            !.orientation = UpdateOrientationAfterRotation(d.orientation, a.spin)]
    IN [UpdateTopFaceFromRotation(turned) EXCEPT !.isRolling = FALSE]

\* the last frame of animateRotation, before onComplete
RotationFinished(d, a) ==
    LET turned == [d EXCEPT !.rot = RotateOnWorldAxis(a.initialRotation, <<0, 1, 0>>,
                                                      IF a.spin = "left" THEN 1 ELSE -1),
                            !.orientation = UpdateOrientationAfterRotation(d.orientation, a.spin)]
    IN [UpdateTopFaceFromRotation(turned) EXCEPT !.isRolling = FALSE]

AnimFinished(d, a) ==
    IF a.kind = "roll" THEN RollFinished(d, a) ELSE RotationFinished(d, a)

----------------------------------------------------------------------------
(* A lone die driven through its public methods *)

Lone == "die"

Cells(boundaryLimit) ==
    {p \in [x : -boundaryLimit .. boundaryLimit, z : -boundaryLimit .. boundaryLimit] :
        p.x % 2 = 0 /\ p.z % 2 = 0}

Snapshot(d) == [orientation |-> d.orientation, topFace |-> d.topFace]

OpName(a) ==
    IF a.kind = "rotate" THEN a.spin
    ELSE IF a.direction = North THEN "north"
    ELSE IF a.direction = South THEN "south"
    ELSE IF a.direction = West THEN "west"
    ELSE "east"

NoTrail == [ops |-> <<>>, before |-> Snapshot(NewDie([x |-> 0, z |-> 0], 0))]

\* The observer watches runs of one repeated operation (up to four) and the
\* pairs left-right and right-left; it may start watching afresh at any
\* completed operation, so every window of consecutive operations is watched.
Watched(ops) ==
    \/ Len(ops) <= 4 /\ \A i \in 1 .. Len(ops) : ops[i] = ops[1]
    \/ ops = <<"left", "right">>
    \/ ops = <<"right", "left">>

\* what the observer may hold after operation op completes on die d
Observations(t, op, d) ==
    {[ops |-> <<op>>, before |-> Snapshot(d)]}
        \cup (IF t.ops # <<>> /\ Watched(Append(t.ops, op))
              THEN {[t EXCEPT !.ops = Append(t.ops, op)]}
              ELSE {})

\* findPath has not been called
NoPath == [start |-> [x |-> 0, z |-> 0], goal |-> [x |-> 0, z |-> 0],
           allowRedDiceInterception |-> FALSE, called |-> FALSE, path |-> <<>>]

\* no highest-rank query has been answered since the last change
NoRank == [squad |-> "none", dice |-> <<>>, rank |-> 0]

\* no match is set up around the lone die
NoGame ==
    /\ gridSize = 2 * GridHalf
    /\ redDice = <<>> /\ blueDice = <<>> /\ selectedDice = <<>>
    /\ occupiedPositions = <<>>
    /\ isRolling = FALSE /\ gameOver = FALSE /\ winner = "none"
    /\ ihIsRolling = FALSE /\ ihDetached = FALSE /\ ihSelectedDice = <<>>
    /\ pendingRotations = 0
    /\ isAIMoving = FALSE /\ blueDiceMoveHistory = <<>>
    /\ commands = 0

DieInit(boundaryLimit, faces) ==
    /\ NoGame
    /\ \E p \in Cells(boundaryLimit), v \in faces : dice = [i \in {Lone} |-> NewDie(p, v)]
    /\ anims = <<>>
    /\ trail = NoTrail
    /\ rankResult = NoRank
    /\ pathResult = NoPath

DieRoll(direction, boundaryLimit) ==
    /\ RollAccepted(dice[Lone], direction, boundaryLimit)
    /\ dice' = [dice EXCEPT ![Lone] = Roll(dice[Lone], direction, boundaryLimit)]
    /\ anims' = Append(anims, RollAnim(Lone, dice[Lone], direction, "none"))
    /\ UNCHANGED <<trail, rankResult, pathResult, gameVars>>

DieRollRejected(direction, boundaryLimit) ==
    /\ ~RollAccepted(dice[Lone], direction, boundaryLimit)
    /\ UNCHANGED vars

DieRotateInPlace(spin) ==
    /\ RotateAccepted(dice[Lone])
    /\ dice' = [dice EXCEPT ![Lone].isRolling = TRUE]
    /\ anims' = Append(anims, RotateAnim(Lone, dice[Lone], spin, "none"))
    /\ UNCHANGED <<trail, rankResult, pathResult, gameVars>>

DieRotateRejected(spin) ==
    /\ ~RotateAccepted(dice[Lone])
    /\ UNCHANGED vars

DieAnimationDone ==
    /\ anims # <<>>
    /\ dice' = [dice EXCEPT ![Lone] = AnimFinished(dice[Lone], Head(anims))]
    /\ anims' = Tail(anims)
    /\ trail' \in Observations(trail, OpName(Head(anims)), dice[Lone])
    /\ UNCHANGED <<rankResult, pathResult, gameVars>>

DieAnimationDoneUnwatched ==
    /\ anims # <<>>
    /\ dice' = [dice EXCEPT ![Lone] = AnimFinished(dice[Lone], Head(anims))]
    /\ anims' = Tail(anims)
    /\ UNCHANGED <<trail, rankResult, pathResult, gameVars>>

DieSetTopFace(v) ==
    /\ dice' = [dice EXCEPT ![Lone] = SetTopFace(dice[Lone], v)]
    /\ UNCHANGED <<anims, trail, rankResult, pathResult, gameVars>>

DieBoundaryLimit == 2 * DieBoardHalf

DieNext ==
    \/ \E direction \in Directions : DieRoll(direction, DieBoundaryLimit)
    \/ \E direction \in Directions : DieRollRejected(direction, DieBoundaryLimit)
    \/ \E spin \in {"left", "right"} : DieRotateInPlace(spin)
    \/ \E spin \in {"left", "right"} : DieRotateRejected(spin)
    \/ DieAnimationDone

\* a die constructed as createDice does (initialTopFace in 1..6), then rolled and rotated
SpecDie == DieInit(DieBoundaryLimit, 1 .. 6) /\ [][DieNext]_vars

FaceBoundaryLimit == 2 * FaceBoardHalf

FaceNext ==
    \/ \E direction \in Directions : DieRoll(direction, FaceBoundaryLimit)
    \/ \E direction \in Directions : DieRollRejected(direction, FaceBoundaryLimit)
    \/ \E spin \in {"left", "right"} : DieRotateInPlace(spin)
    \/ \E spin \in {"left", "right"} : DieRotateRejected(spin)
    \/ DieAnimationDoneUnwatched
    \/ \E v \in 1 .. 6 : DieSetTopFace(v)

\* a die constructed with or without an initialTopFace (0 = undefined), with
\* setTopFace also called at any later time
SpecFaces == DieInit(FaceBoundaryLimit, 0 .. 6) /\ [][FaceNext]_vars

----------------------------------------------------------------------------
(* The board and the set-up of a match *)

\* the wiring passes dieSize as the board's cellSize
CellSize == DieSize

GridSize == gridSize

\* variant: half a cell is added instead of taken off
BoundaryLimitPastEdge == (CellSize * GridSize) \div 2 + CellSize \div 2

\* GameBoard constructor
BoundaryLimit == (CellSize * GridSize) \div 2 - CellSize \div 2

\* GameBoard.getStartPosition: the cell of the flag the red squad defends
StartPosition == [x |-> 0, z |-> (GridSize \div 2 - 1) * CellSize]

\* the cell of the flag the blue squad defends
OppositeStartPos == [x |-> 0 - StartPosition.x, z |-> 0 - StartPosition.z]

IsWithinBoundaries(position) ==
    Abs(position.x) <= BoundaryLimit /\ Abs(position.z) <= BoundaryLimit

Includes(seq, e) == \E i \in 1 .. Len(seq) : seq[i] = e

\* GameManager.isPositionOccupied
IsPositionOccupied(occupied, position) == Includes(occupied, position)

AdjacentPositions ==
    << [x |-> 0 - DieSize, z |-> 0], [x |-> DieSize, z |-> 0],
       [x |-> 0, z |-> 0 - DieSize], [x |-> 0, z |-> DieSize],
       [x |-> 0 - DieSize, z |-> 0 - DieSize], [x |-> DieSize, z |-> 0 - DieSize],
       [x |-> 0 - DieSize, z |-> DieSize], [x |-> DieSize, z |-> DieSize] >>

\* the outcomes of [...adjacentPositions].sort(() => Math.random() - 0.5)
ShuffledPositions ==
    {[i \in 1 .. Len(AdjacentPositions) |-> AdjacentPositions[p[i]]] :
        p \in Permutations(1 .. Len(AdjacentPositions))}

RedIds == <<"r1", "r2", "r3", "r4", "r5", "r6">>
BlueIds == <<"b1", "b2", "b3", "b4", "b5", "b6">>

\* GameManager.createDice: the cells of the dice it places, in order, and
\* occupiedPositions afterwards
RECURSIVE CreateDice(_, _, _, _, _)
CreateDice(shuffledPositions, i, basePosition, placed, occupied) ==
    IF i > Len(shuffledPositions) \/ Len(placed) >= MaxDice
    THEN [placed |-> placed, occupied |-> occupied]
    ELSE LET position == [x |-> basePosition.x + shuffledPositions[i].x,
                          z |-> basePosition.z + shuffledPositions[i].z]
         IN IF IsWithinBoundaries(position) /\ ~IsPositionOccupied(occupied, position)
            THEN CreateDice(shuffledPositions, i + 1, basePosition,
                            Append(placed, position), Append(occupied, position))
            ELSE CreateDice(shuffledPositions, i + 1, basePosition, placed, occupied)

\* the value createDice gives the die it places when diceCount dice are placed
FaceValue(diceCount) == (diceCount % 6) + 1

\* GameManager.initializeGame, with the InputHandler and the AIManager constructed
InitializeGame(shuffledPositions) ==
    LET red == CreateDice(shuffledPositions, 1, StartPosition, <<>>,
                          <<StartPosition, OppositeStartPos>>)
        blue == CreateDice(shuffledPositions, 1, OppositeStartPos, <<>>, red.occupied)
        reds == SubSeq(RedIds, 1, Len(red.placed))
        blues == SubSeq(BlueIds, 1, Len(blue.placed))
        ids == {reds[i] : i \in 1 .. Len(reds)} \cup {blues[i] : i \in 1 .. Len(blues)}
        made(id) ==
            IF Includes(reds, id)
            THEN LET i == CHOOSE j \in 1 .. Len(reds) : reds[j] = id
                 IN NewDie(red.placed[i], FaceValue(i - 1))
            ELSE LET i == CHOOSE j \in 1 .. Len(blues) : blues[j] = id
                 IN NewDie(blue.placed[i], FaceValue(i - 1))
    IN [dice |-> [id \in ids |-> UpdateTopFaceFromRotation(made(id))],
        anims |-> <<>>,
        redDice |-> reds,
        blueDice |-> blues,
        selectedDice |-> <<>>,
        occupiedPositions |-> blue.occupied,
        isRolling |-> FALSE,
        gameOver |-> FALSE,
        winner |-> "none",
        ihIsRolling |-> FALSE,
        ihDetached |-> FALSE,
        ihSelectedDice |-> <<>>,
        pendingRotations |-> 0,
        isAIMoving |-> FALSE,
        blueDiceMoveHistory |-> [id \in {} |-> <<>>]]

\* the program state as one value, for the handlers below
Cur ==
    [dice |-> dice, anims |-> anims, redDice |-> redDice, blueDice |-> blueDice,
     selectedDice |-> selectedDice, occupiedPositions |-> occupiedPositions,
     isRolling |-> isRolling, gameOver |-> gameOver, winner |-> winner,
     ihIsRolling |-> ihIsRolling, ihDetached |-> ihDetached,
     ihSelectedDice |-> ihSelectedDice, pendingRotations |-> pendingRotations,
     isAIMoving |-> isAIMoving, blueDiceMoveHistory |-> blueDiceMoveHistory]

Becomes(s) ==
    /\ gridSize' = gridSize
    /\ dice' = s.dice /\ anims' = s.anims
    /\ redDice' = s.redDice /\ blueDice' = s.blueDice
    /\ selectedDice' = s.selectedDice /\ occupiedPositions' = s.occupiedPositions
    /\ isRolling' = s.isRolling /\ gameOver' = s.gameOver /\ winner' = s.winner
    /\ ihIsRolling' = s.ihIsRolling /\ ihDetached' = s.ihDetached
    /\ ihSelectedDice' = s.ihSelectedDice /\ pendingRotations' = s.pendingRotations
    /\ isAIMoving' = s.isAIMoving /\ blueDiceMoveHistory' = s.blueDiceMoveHistory

----------------------------------------------------------------------------
(* Mesh positions of dice in flight *)

InFlight(s, id) == {i \in 1 .. Len(s.anims) : s.anims[i].die = id /\ s.anims[i].kind = "roll"}

\* Math.abs(die.mesh.position.x - p.x) < 0.1 && Math.abs(die.mesh.position.z - p.z) < 0.1
MeshNear(s, id, p) ==
    IF InFlight(s, id) = {} THEN s.dice[id].pos = p
    ELSE LET a == s.anims[CHOOSE i \in InFlight(s, id) : TRUE]
         IN \/ a.phase = PhaseStart /\ p = a.startPosition
            \/ a.phase = PhaseEnd /\ p = a.targetPosition

\* the cell centre nearest to the mesh of die id
MeshCell(s, id) ==
    IF InFlight(s, id) = {} THEN s.dice[id].pos
    ELSE LET a == s.anims[CHOOSE i \in InFlight(s, id) : TRUE]
         IN IF a.phase <= PhaseLeaving THEN a.startPosition ELSE a.targetPosition

----------------------------------------------------------------------------
(* GameManager *)

Remove(seq, e) == SelectSeq(seq, LAMBDA x : x # e)

\* seq.splice(seq.findIndex(x => x is e), 1), nothing when there is none
RemoveFirst(seq, e) ==
    IF Includes(seq, e)
    THEN LET i == CHOOSE j \in 1 .. Len(seq) :
                      seq[j] = e /\ \A k \in 1 .. j - 1 : seq[k] # e
         IN SubSeq(seq, 1, i - 1) \o SubSeq(seq, i + 1, Len(seq))
    ELSE seq

\* the loop of findHighestRankDice / findHighestRankBlueDice over a squad
RECURSIVE HighestRank(_, _, _, _)
HighestRank(d, squad, i, highestRank) ==
    IF i > Len(squad) THEN highestRank
    ELSE HighestRank(d, squad, i + 1,
                     IF d[squad[i]].topFace > highestRank
                     THEN d[squad[i]].topFace ELSE highestRank)

\* variant: the scan starts from 1 instead of 0
HighestRankFromFirst(d, squad) ==
    LET highestRank == HighestRank(d, squad, 1, 1)
    IN [dice |-> SelectSeq(squad, LAMBDA id : d[id].topFace = highestRank),
        rank |-> highestRank]

\* the value both functions compute for their squad
HighestRankOf(d, squad) ==
    LET highestRank == HighestRank(d, squad, 1, 0)
    IN [dice |-> SelectSeq(squad, LAMBDA id : d[id].topFace = highestRank),
        rank |-> highestRank]

FindHighestRankDice(s) == HighestRankOf(s.dice, s.redDice)

\* variant: every red die counts as highest rank
AnyRedDie(s, id) == Includes(s.redDice, id)

IsHighestRankDie(s, id) == Includes(FindHighestRankDice(s).dice, id)

UpdateHighlightedDice(s) ==
    LET highestDice == FindHighestRankDice(s).dice
    IN IF Len(highestDice) = 1 /\ Len(s.selectedDice) = 0
       THEN [s EXCEPT !.selectedDice = <<highestDice[1]>>]
       ELSE s

\* variant: the same-colour test is left out
CanDieMoveAnywhere(s, id, direction) ==
    IsWithinBoundaries(Moved(s.dice[id].pos, direction, DieSize))

CanDieMove(s, id, direction) ==
    LET newPosition == Moved(s.dice[id].pos, direction, DieSize)
        isSameColorDieAtPosition(diceArray) ==
            \E i \in 1 .. Len(diceArray) : MeshNear(s, diceArray[i], newPosition)
    IN IF ~IsWithinBoundaries(newPosition) THEN FALSE
       ELSE IF Includes(s.redDice, id) /\ isSameColorDieAtPosition(s.redDice) THEN FALSE
       ELSE IF Includes(s.blueDice, id) /\ isSameColorDieAtPosition(s.blueDice) THEN FALSE
       ELSE TRUE

\* variant: the elimination test never ends the match
CheckWinConditionsNever(s) == s


CheckWinConditions(s) ==
    IF s.gameOver THEN s
    ELSE IF Len(s.redDice) = 0 /\ Len(s.blueDice) > 0
         THEN [s EXCEPT !.gameOver = TRUE, !.winner = "blue"]
    ELSE IF Len(s.blueDice) = 0 /\ Len(s.redDice) > 0
         THEN [s EXCEPT !.gameOver = TRUE, !.winner = "red"]
    ELSE s

\* the opposing dice checkCollisions finds at newPosition, first in array order
Hit(s, activeDie, newPosition) ==
    LET opposingDice == IF Includes(s.redDice, activeDie) THEN s.blueDice ELSE s.redDice
    IN SelectSeq(opposingDice, LAMBDA id : MeshNear(s, id, newPosition))

\* variant: only the opposing die is removed
CheckCollisionsSparingMover(s, activeDie, newPosition) ==
    LET hit == Hit(s, activeDie, newPosition)
    IN IF hit = <<>> THEN s
       ELSE CheckWinConditions(
                [s EXCEPT !.redDice = Remove(@, hit[1]), !.blueDice = Remove(@, hit[1])])

\* checkCollisions: the state afterwards (it returns true iff Hit is not empty)
CheckCollisions(s, activeDie, newPosition) ==
    LET hit == Hit(s, activeDie, newPosition)
    IN IF hit = <<>> THEN s
       ELSE LET opposingDie == hit[1]
                removed ==
                    [s EXCEPT
                        !.redDice = Remove(Remove(@, opposingDie), activeDie),
                        !.blueDice = Remove(Remove(@, opposingDie), activeDie),
                        !.occupiedPositions = RemoveFirst(@, newPosition),
                        !.selectedDice =
                            IF Includes(@, activeDie) THEN <<>> ELSE @]
            IN CheckWinConditions(removed)

\* variant: a capture ends the match and leaves the losing squad standing
CheckFlagCaptureKeepingSquads(s, id) ==
    LET isRedDie == Includes(s.redDice, id)
    IN IF isRedDie /\ MeshNear(s, id, OppositeStartPos)
       THEN [s EXCEPT !.gameOver = TRUE, !.winner = "red"]
       ELSE IF ~isRedDie /\ MeshNear(s, id, StartPosition)
       THEN [s EXCEPT !.gameOver = TRUE, !.winner = "blue"]
       ELSE s

CheckFlagCapture(s, id) ==
    LET isRedDie == Includes(s.redDice, id)
    IN IF isRedDie /\ MeshNear(s, id, OppositeStartPos)
       THEN [s EXCEPT !.blueDice = <<>>, !.gameOver = TRUE, !.winner = "red"]
       ELSE IF ~isRedDie /\ MeshNear(s, id, StartPosition)
       THEN [s EXCEPT !.redDice = <<>>, !.gameOver = TRUE, !.winner = "blue"]
       ELSE s

\* variant: moveDie without the gameOver test
MoveDieIgnoringGameOver(s, direction) ==
    IF s.isRolling \/ Len(s.selectedDice) = 0 THEN s
    ELSE LET activeDie == s.selectedDice[1]
         IN IF ~Includes(s.redDice, activeDie)
            THEN UpdateHighlightedDice([s EXCEPT !.selectedDice = <<>>])
            ELSE IF ~IsHighestRankDie(s, activeDie) THEN UpdateHighlightedDice(s)
            ELSE IF CanDieMove(s, activeDie, direction)
            THEN IF RollAccepted(s.dice[activeDie], direction, BoundaryLimit)
                 THEN [s EXCEPT !.isRolling = TRUE,
                                !.dice[activeDie].isRolling = TRUE,
                                !.anims = Append(@, RollAnim(activeDie, s.dice[activeDie],
                                                             direction, "moveDie"))]
                 ELSE [s EXCEPT !.isRolling = TRUE]
            ELSE s

MoveDie(s, direction) ==
    IF s.isRolling \/ Len(s.selectedDice) = 0 \/ s.gameOver THEN s
    ELSE LET activeDie == s.selectedDice[1]
         IN IF ~Includes(s.redDice, activeDie)
            THEN UpdateHighlightedDice([s EXCEPT !.selectedDice = <<>>])
            ELSE IF ~IsHighestRankDie(s, activeDie) THEN UpdateHighlightedDice(s)
            ELSE IF CanDieMove(s, activeDie, direction)
            THEN IF RollAccepted(s.dice[activeDie], direction, BoundaryLimit)
                 THEN [s EXCEPT !.isRolling = TRUE,
                                !.dice[activeDie].isRolling = TRUE,
                                !.anims = Append(@, RollAnim(activeDie, s.dice[activeDie],
                                                             direction, "moveDie"))]
                 ELSE [s EXCEPT !.isRolling = TRUE]
            ELSE s

\* the onComplete callback moveDie passes to Die.roll; a is the finished animation
MoveDieComplete(s, a) ==
    LET activeDie == a.die
        oldPosition == a.startPosition
        newPosition == a.targetPosition
        s1 == [s EXCEPT !.occupiedPositions = RemoveFirst(@, oldPosition)]
        collisionOccurred == Hit(s1, activeDie, newPosition) # <<>>
        s2 == CheckCollisions(s1, activeDie, newPosition)
        s3 == IF ~collisionOccurred
              THEN CheckFlagCapture(
                       [s2 EXCEPT !.occupiedPositions = Append(@, newPosition)], activeDie)
              ELSE s2
    IN [UpdateHighlightedDice(s3) EXCEPT !.isRolling = FALSE]

----------------------------------------------------------------------------
(* InputHandler *)

\* this.dice.selectedDice: GameManager's array until the handler replaces it
IhSelected(s) == IF s.ihDetached THEN s.ihSelectedDice ELSE s.selectedDice

\* an in-place change of this.dice.selectedDice (push, splice, length = 0)
IhSelect(s, selection) ==
    IF s.ihDetached THEN [s EXCEPT !.ihSelectedDice = selection]
    ELSE [s EXCEPT !.selectedDice = selection]

\* onKeyDown for W, A, S, D.  state.gameOver is the copy made at construction,
\* which is false.
KeyMove(s, direction) ==
    IF ~s.ihIsRolling THEN MoveDie(s, direction) ELSE s

\* the dice of a selection that rotateSelectedDice accepts
ValidSelectedDice(s) ==
    SelectSeq(IhSelected(s), LAMBDA id : Includes(s.redDice, id) /\ IsHighestRankDie(s, id))

\* validSelectedDice.forEach(die => die.rotateInPlace(direction, callback))
RECURSIVE RotateEach(_, _, _, _)
RotateEach(s, valid, i, spin) ==
    IF i > Len(valid) THEN s
    ELSE IF RotateAccepted(s.dice[valid[i]])
    THEN RotateEach([s EXCEPT !.dice[valid[i]].isRolling = TRUE,
                              !.anims = Append(@, RotateAnim(valid[i], s.dice[valid[i]],
                                                             spin, "rotateSelectedDice"))],
                    valid, i + 1, spin)
    ELSE RotateEach(s, valid, i + 1, spin)

RotateSelectedDice(s, spin) ==
    IF s.ihIsRolling \/ Len(IhSelected(s)) = 0 THEN s
    ELSE LET validSelectedDice == ValidSelectedDice(s)
         IN IF Len(validSelectedDice) = 0 THEN s
            ELSE RotateEach([s EXCEPT !.ihIsRolling = TRUE,
                                      !.pendingRotations = Len(validSelectedDice)],
                            validSelectedDice, 1, spin)

\* onKeyDown for Q (left) and E (right)
KeyRotate(s, spin) ==
    IF ~s.ihIsRolling /\ Len(IhSelected(s)) > 0
    THEN IF Len(ValidSelectedDice(s)) = 0
         THEN UpdateHighlightedDice([s EXCEPT !.ihDetached = TRUE, !.ihSelectedDice = <<>>])
         ELSE RotateSelectedDice(s, spin)
    ELSE s

\* the callback rotateSelectedDice passes to Die.rotateInPlace
RotationComplete(s, a) ==
    LET s1 == [s EXCEPT !.pendingRotations = @ - 1]
    IN IF s1.pendingRotations = 0
       THEN [UpdateHighlightedDice(s1) EXCEPT !.ihIsRolling = FALSE]
       ELSE s1

\* onKeyDown for the digits 1..6 (the test hook)
KeyDigit(s, digit) ==
    IF Len(IhSelected(s)) > 0 /\ digit >= 1 /\ digit <= 6
    THEN LET activeDie == IhSelected(s)[1]
         IN IF Includes(s.redDice, activeDie)
            THEN UpdateHighlightedDice(
                     [s EXCEPT !.dice[activeDie] = SetTopFace(@, digit)])
            ELSE s
    ELSE s

\* onClick with the left button outside the cooldown; target is the die whose
\* mesh the ray hits first, or "none" for empty space
OnClick(s, target, isCtrlPressed) ==
    IF s.ihIsRolling THEN s
    ELSE LET selection == IhSelected(s)
             s1 == IF target # "none"
                   THEN IF Includes(s.redDice, target) /\ IsHighestRankDie(s, target)
                        THEN IF isCtrlPressed
                             THEN IF Includes(selection, target)
                                  THEN IhSelect(s, RemoveFirst(selection, target))
                                  ELSE IhSelect(s, Append(selection, target))
                             ELSE IhSelect(s, <<target>>)
                        ELSE s
                   ELSE IF ~isCtrlPressed THEN IhSelect(s, <<>>) ELSE s
         IN UpdateHighlightedDice(s1)

----------------------------------------------------------------------------
(* AIManager: grid, distances and the A* search *)

\* the flags the AIManager is given: redFlag is the one it attacks (the red
\* squad's, at the start position), blueFlag the one it defends
RedFlagPosition == StartPosition
BlueFlagPosition == OppositeStartPos

\* Math.round(w / cellSize) for an integer w (Math.round rounds halves up)
RoundedCells(w) == (2 * w + CellSize) \div (2 * CellSize)

GridPositionFromWorld(worldPos) ==
    [x |-> RoundedCells(worldPos.x), z |-> RoundedCells(worldPos.z)]

\* gridPositionFromWorld(die.mesh.position)
GridPositionOfDie(s, id) == GridPositionFromWorld(MeshCell(s, id))

WorldPositionFromGrid(gridPos) == [x |-> gridPos.x * CellSize, z |-> gridPos.z * CellSize]

IsPositionWithinBoundaries(pos) == IsWithinBoundaries(WorldPositionFromGrid(pos))

IsPositionOccupiedBySameColor(s, pos, isBlue) ==
    LET diceArray == IF isBlue THEN s.blueDice ELSE s.redDice
    IN \E i \in 1 .. Len(diceArray) : MeshNear(s, diceArray[i], WorldPositionFromGrid(pos))

CalculateManhattanDistance(pos1, pos2) == Abs(pos1.x - pos2.x) + Abs(pos1.z - pos2.z)

CalculateDistanceToBlueFlag(s, id) ==
    CalculateManhattanDistance(GridPositionOfDie(s, id), GridPositionFromWorld(BlueFlagPosition))

CalculateDistanceToRedFlag(s, id) ==
    CalculateManhattanDistance(GridPositionOfDie(s, id), GridPositionFromWorld(RedFlagPosition))

NeighborDirections == << [x |-> 0, z |-> -1], [x |-> -1, z |-> 0], [x |-> 1, z |-> 0], [x |-> 0, z |-> 1] >>

\* getNeighbors: the cells next to node that the search may enter, in order
GetNeighbors(s, node, goal, allowRedDiceInterception) ==
    LET cell(i) == [x |-> node.x + NeighborDirections[i].x, z |-> node.z + NeighborDirections[i].z]
        valid(i) ==
            LET pos == cell(i)
                isGoal == pos.x = goal.x /\ pos.z = goal.z
                hasRedDie == IsPositionOccupiedBySameColor(s, pos, FALSE)
                isBlueFlag == WorldPositionFromGrid(pos) = BlueFlagPosition
            IN /\ IsPositionWithinBoundaries(pos)
               /\ ~IsPositionOccupiedBySameColor(s, pos, TRUE)
               /\ ~(hasRedDie /\ ~allowRedDiceInterception /\ ~isGoal)
               /\ ~isBlueFlag
        indices == SelectSeq(<<1, 2, 3, 4>>, valid)
    IN [i \in 1 .. Len(indices) |-> cell(indices[i])]

\* openSet.sort((a, b) => a.f - b.f): a stable sort
RECURSIVE InsertByF(_, _)
InsertByF(sorted, node) ==
    IF sorted = <<>> THEN <<node>>
    ELSE IF node.f < Head(sorted).f THEN <<node>> \o sorted
    ELSE <<Head(sorted)>> \o InsertByF(Tail(sorted), node)

\* variant: openSet.sort((a, b) => b.f - a.f), the node of greatest f first
RECURSIVE InsertByGreatestF(_, _)
InsertByGreatestF(sorted, node) ==
    IF sorted = <<>> THEN <<node>>
    ELSE IF node.f > Head(sorted).f THEN <<node>> \o sorted
    ELSE <<Head(sorted)>> \o InsertByGreatestF(Tail(sorted), node)

RECURSIVE SortByGreatestF(_)
SortByGreatestF(openSet) ==
    IF openSet = <<>> THEN <<>>
    ELSE InsertByGreatestF(SortByGreatestF(SubSeq(openSet, 1, Len(openSet) - 1)),
                           openSet[Len(openSet)])

RECURSIVE SortByF(_)
SortByF(openSet) ==
    IF openSet = <<>> THEN <<>>
    ELSE InsertByF(SortByF(SubSeq(openSet, 1, Len(openSet) - 1)), openSet[Len(openSet)])

\* the loop over the neighbors of current: openSet afterwards.  A node keeps
\* the cells from the start to itself (path) in place of its parent link.
RECURSIVE VisitNeighbors(_, _, _, _, _, _)
VisitNeighbors(openSet, neighbors, i, current, closedSet, goal) ==
    IF i > Len(neighbors) THEN openSet
    ELSE LET neighbor == neighbors[i]
             tentativeG == current.g + 1
             existing == {j \in 1 .. Len(openSet) :
                             openSet[j].x = neighbor.x /\ openSet[j].z = neighbor.z}
         IN IF neighbor \in closedSet
            THEN VisitNeighbors(openSet, neighbors, i + 1, current, closedSet, goal)
            ELSE IF existing = {}
            THEN LET h == CalculateManhattanDistance(neighbor, goal)
                 IN VisitNeighbors(
                        Append(openSet, [x |-> neighbor.x, z |-> neighbor.z, g |-> tentativeG,
                                         h |-> h, f |-> tentativeG + h,
                                         path |-> Append(current.path, neighbor)]),
                        neighbors, i + 1, current, closedSet, goal)
            ELSE LET j == CHOOSE k \in existing : \A l \in existing : k <= l
                 IN IF tentativeG < openSet[j].g
                    THEN VisitNeighbors(
                             [openSet EXCEPT ![j].g = tentativeG,
                                             ![j].f = tentativeG + openSet[j].h,
                                             ![j].path = Append(current.path, neighbor)],
                             neighbors, i + 1, current, closedSet, goal)
                    ELSE VisitNeighbors(openSet, neighbors, i + 1, current, closedSet, goal)

\* variant: the loop gives up after twice the grid size iterations
TwiceTheGridSize == 2 * GridSize

MaxIterations == 100

\* the while loop of findPath; <<>> stands for null
RECURSIVE SearchLoop(_, _, _, _, _, _)
SearchLoop(s, openSet, closedSet, goal, allowRedDiceInterception, iterations) ==
    IF ~(Len(openSet) > 0 /\ iterations < MaxIterations) THEN <<>>
    ELSE LET sorted == SortByF(openSet)
             current == Head(sorted)
         IN IF current.x = goal.x /\ current.z = goal.z THEN current.path
            ELSE LET closed == closedSet \cup {[x |-> current.x, z |-> current.z]}
                     neighbors == GetNeighbors(s, current, goal, allowRedDiceInterception)
                 IN SearchLoop(s,
                               VisitNeighbors(Tail(sorted), neighbors, 1, current, closed, goal),
                               closed, goal, allowRedDiceInterception, iterations + 1)

\* findPath: the cells of the path from start to goal, or <<>> for null
FindPath(s, start, goal, allowRedDiceInterception) ==
    LET h == CalculateManhattanDistance(start, goal)
        startNode == [x |-> start.x, z |-> start.z, g |-> 0, h |-> h, f |-> h,
                      path |-> <<[x |-> start.x, z |-> start.z]>>]
    IN SearchLoop(s, <<startNode>>, {}, [x |-> goal.x, z |-> goal.z],
                  allowRedDiceInterception, 0)

FindPathToTarget(s, id, targetPosition) ==
    FindPath(s, GridPositionOfDie(s, id), GridPositionFromWorld(targetPosition), FALSE)

----------------------------------------------------------------------------
(* AIManager: choosing a die and a direction *)

\* six times calculateThreatToBlueFlag (the program adds topFace / 6 per die)
RECURSIVE ThreatTimesSix(_, _)
ThreatTimesSix(s, i) ==
    IF i > Len(s.redDice) THEN 0
    ELSE LET distance == CalculateDistanceToBlueFlag(s, s.redDice[i])
             closeness == IF distance <= 2 THEN 3
                          ELSE IF distance <= 4 THEN 2
                          ELSE IF distance <= 6 THEN 1
                          ELSE 0
         IN 6 * closeness + s.dice[s.redDice[i]].topFace + ThreatTimesSix(s, i + 1)

\* threatLevel > n
ThreatAbove(s, n) == ThreatTimesSix(s, 1) > 6 * n

\* a < b * sqrt(n), for integers a, b # 0 and n > 0
BelowTimesRoot(a, b, n) ==
    IF b > 0 THEN a <= 0 \/ a * a < b * b * n
    ELSE a < 0 /\ a * a > b * b * n

\* Math.round(p + (d / Math.sqrt(n)) * i) for integers p, d, i > 0 and
\* n >= d * d, n > 0: the r with r - 1/2 <= i * d / sqrt(n) < r + 1/2, added to p
RoundedStep(p, d, n, i) ==
    p + (CHOOSE r \in 0 - i .. i :
            /\ ~BelowTimesRoot(2 * i * d, 2 * r - 1, n)
            /\ BelowTimesRoot(2 * i * d, 2 * r + 1, n))

\* calculateInterceptionPoints: grid cells, in order
CalculateInterceptionPoints(s, redDie) ==
    LET redPos == GridPositionOfDie(s, redDie)
        blueFlag == GridPositionFromWorld(BlueFlagPosition)
        dx == blueFlag.x - redPos.x
        dz == blueFlag.z - redPos.z
        n == dx * dx + dz * dz
        \* with length 0 the normalised direction is NaN and no point passes the boundary test
        along == IF n = 0 THEN <<>>
                 ELSE [i \in 1 .. 3 |-> [x |-> RoundedStep(redPos.x, dx, n, i),
                                         z |-> RoundedStep(redPos.z, dz, n, i)]]
        adjacentPoints == << [x |-> redPos.x + 1, z |-> redPos.z],
                             [x |-> redPos.x - 1, z |-> redPos.z],
                             [x |-> redPos.x, z |-> redPos.z + 1],
                             [x |-> redPos.x, z |-> redPos.z - 1] >>
    IN SelectSeq(along, IsPositionWithinBoundaries)
           \o SelectSeq(adjacentPoints, IsPositionWithinBoundaries)

\* the paths found from blueDie to the interception points of one red die
PathsToPoints(s, blueDie, points) ==
    SelectSeq([i \in 1 .. Len(points) |->
                  FindPath(s, GridPositionOfDie(s, blueDie), points[i], TRUE)],
              LAMBDA path : path # <<>>)

RECURSIVE InterceptionPathsFrom(_, _, _)
InterceptionPathsFrom(s, blueDie, i) ==
    IF i > Len(s.redDice) THEN <<>>
    ELSE (IF CalculateDistanceToBlueFlag(s, s.redDice[i]) <= 6
          THEN PathsToPoints(s, blueDie, CalculateInterceptionPoints(s, s.redDice[i]))
          ELSE <<>>)
             \o InterceptionPathsFrom(s, blueDie, i + 1)

FindInterceptionPaths(s, blueDie) == InterceptionPathsFrom(s, blueDie, 1)

\* array.sort(compare)[0] for a comparator that orders by a pair of numbers:
\* the first element with the least key (the sort is stable)
FirstLeast(seq, key(_)) ==
    LET less(a, b) == a[1] < b[1] \/ (a[1] = b[1] /\ a[2] < b[2])
        keys == [i \in 1 .. Len(seq) |-> key(seq[i])] \o <<>>
    IN seq[CHOOSE i \in 1 .. Len(seq) :
               /\ \A j \in 1 .. Len(seq) : ~less(keys[j], keys[i])
               /\ \A j \in 1 .. i - 1 : less(keys[i], keys[j])]

\* the comparator of the defensive ordering in chooseBestDie
DefensiveKey(s, id) ==
    <<IF Len(FindInterceptionPaths(s, id)) > 0 THEN 0 ELSE 1,
      CalculateDistanceToBlueFlag(s, id)>>

\* the comparator of the offensive ordering in chooseBestDie
OffensiveKey(s, id) ==
    LET pathToFlag == FindPathToTarget(s, id, RedFlagPosition)
    IN IF pathToFlag # <<>> THEN <<0, Len(pathToFlag)>>
       ELSE <<1, CalculateDistanceToRedFlag(s, id)>>

\* chooseBestDie: the dice it can return ({} for null); under medium threat
\* Math.random() picks the ordering
ChooseBestDie(s, candidates) ==
    IF Len(candidates) = 0 THEN {}
    ELSE IF Len(candidates) = 1 THEN {candidates[1]}
    ELSE LET defensive == FirstLeast(candidates, LAMBDA id : DefensiveKey(s, id))
             offensive == FirstLeast(candidates, LAMBDA id : OffensiveKey(s, id))
         IN IF ThreatAbove(s, 3) THEN {defensive}
            ELSE IF ThreatAbove(s, 1) THEN {defensive, offensive}
            ELSE {offensive}

History(s, id) ==
    IF id \in DOMAIN s.blueDiceMoveHistory THEN s.blueDiceMoveHistory[id] ELSE <<>>

IsDieStuckInLoop(s, id) ==
    LET history == History(s, id)
        n == Len(history)
    IN IF n < 4 THEN FALSE
       ELSE history[n - 3] = history[n - 1] /\ history[n - 2] = history[n]

\* variant: no position is ever dropped from the history
RecordDieMoveKeepingAll(s, id) ==
    [k \in DOMAIN s.blueDiceMoveHistory \cup {id} |->
        IF k = id THEN Append(History(s, id), s.dice[id].pos) ELSE s.blueDiceMoveHistory[k]]

\* recordDieMove: the history map afterwards
RecordDieMove(s, id) ==
    LET pushed == Append(History(s, id), s.dice[id].pos)
        kept == IF Len(pushed) > 6 THEN Tail(pushed) ELSE pushed
    IN [k \in DOMAIN s.blueDiceMoveHistory \cup {id} |->
           IF k = id THEN kept ELSE s.blueDiceMoveHistory[k]]

WouldMoveToRecentPosition(s, id, direction) ==
    LET history == History(s, id)
        n == Len(history)
        newPos == Moved(s.dice[id].pos, direction, DieSize)
        last == IF n < 3 THEN n ELSE 3
    IN IF n < 2 THEN FALSE
       ELSE \E i \in 2 .. last : history[n - i + 1] = newPos

\* the score the fallback of chooseBestDirection gives a direction, without
\* the random term it adds for a die that is stuck in a loop
DirectionScore(s, id, dir, isDefensiveMode) ==
    LET newPos == Moved(s.dice[id].pos, dir, DieSize)
        newGrid == GridPositionFromWorld(newPos)
        blueFlag == GridPositionFromWorld(BlueFlagPosition)
        wouldBlockRedPath ==
            \E i \in 1 .. Len(s.redDice) :
                /\ CalculateDistanceToBlueFlag(s, s.redDice[i]) <= 6
                /\ LET redGrid == GridPositionOfDie(s, s.redDice[i])
                   IN CalculateManhattanDistance(redGrid, newGrid)
                          + CalculateManhattanDistance(newGrid, blueFlag)
                          - CalculateManhattanDistance(redGrid, blueFlag) < 3
        base == IF isDefensiveMode
                THEN CalculateManhattanDistance(newGrid, blueFlag)
                         - (IF wouldBlockRedPath THEN 50 ELSE 0)
                ELSE CalculateManhattanDistance(newGrid, GridPositionFromWorld(RedFlagPosition))
        wouldCaptureRedDie == \E i \in 1 .. Len(s.redDice) : MeshNear(s, s.redDice[i], newPos)
        wouldCaptureFlag == newPos = RedFlagPosition
    IN base - (IF wouldCaptureRedDie THEN 100 ELSE 0)
            - (IF wouldCaptureFlag THEN 1000 ELSE 0)
            + (IF WouldMoveToRecentPosition(s, id, dir) THEN 30 ELSE 0)

PossibleDirections == <<North, West, East, South>>

\* the fallback of chooseBestDirection: the directions it can return.  For a
\* stuck die every score gets (Math.random() - 0.5) * 50 added, so a direction
\* can come first iff its score is less than 50 above every other one.
FallbackDirections(s, id, isDefensiveMode) ==
    LET isStuck == IsDieStuckInLoop(s, id)
        canMove == SelectSeq(PossibleDirections, LAMBDA dir : CanDieMove(s, id, dir))
        nonRepeatingDirections ==
            SelectSeq(canMove, LAMBDA dir : ~WouldMoveToRecentPosition(s, id, dir))
        validDirections ==
            IF Len(canMove) > 1 /\ ~isStuck /\ Len(nonRepeatingDirections) > 0
            THEN nonRepeatingDirections ELSE canMove
        score(dir) == DirectionScore(s, id, dir, isDefensiveMode)
    IN IF Len(validDirections) = 0 THEN {}
       ELSE IF isStuck
       THEN {validDirections[i] : i \in
                {j \in 1 .. Len(validDirections) :
                    \A k \in 1 .. Len(validDirections) :
                        k # j => score(validDirections[j]) - score(validDirections[k]) < 50}}
       ELSE {FirstLeast(validDirections, LAMBDA dir : <<score(dir), 0>>)}

\* the first interception path of least length (sort by length, stable)
ShortestPath(paths) == FirstLeast(paths, LAMBDA path : <<Len(path), 0>>)

\* chooseBestDirection: the directions it can return ({} for null)
ChooseBestDirection(s, id) ==
    LET pathToFlag == FindPathToTarget(s, id, RedFlagPosition)
        isDefensiveMode ==
            /\ ThreatAbove(s, 1)
            /\ CalculateDistanceToBlueFlag(s, id) < CalculateDistanceToRedFlag(s, id)
        interceptionPaths == IF isDefensiveMode THEN FindInterceptionPaths(s, id) ELSE <<>>
        pathToFollow ==
            IF Len(interceptionPaths) > 0 THEN ShortestPath(interceptionPaths) ELSE pathToFlag
        currentPos == GridPositionOfDie(s, id)
        direction == [x |-> pathToFollow[2].x - currentPos.x,
                      z |-> pathToFollow[2].z - currentPos.z]
    IN IF Len(pathToFollow) > 1 /\ CanDieMove(s, id, direction) THEN {direction}
       ELSE FallbackDirections(s, id, isDefensiveMode)

\* triggerWin(team), given to the AIManager by the GameManager
TriggerWin(s, team) ==
    IF team = "blue"
    THEN [s EXCEPT !.redDice = <<>>, !.gameOver = TRUE, !.winner = "blue"]
    ELSE [s EXCEPT !.blueDice = <<>>, !.gameOver = TRUE, !.winner = "red"]

FindHighestRankBlueDice(s) == HighestRankOf(s.dice, s.blueDice)

\* moveAIDie, for a die and direction performAIMove chose
MoveAIDie(s, id, direction) ==
    IF ~Includes(s.blueDice, id) THEN [s EXCEPT !.isAIMoving = FALSE]
    ELSE IF RollAccepted(s.dice[id], direction, BoundaryLimit)
    THEN [s EXCEPT !.dice[id].isRolling = TRUE,
                   !.anims = Append(@, RollAnim(id, s.dice[id], direction, "moveAIDie"))]
    ELSE [s EXCEPT !.isAIMoving = FALSE]

\* variant: performAIMove without the isAIMoving test
PerformAIMoveWhileMoving(s, rolling, over) ==
    IF over \/ rolling THEN {s}
    ELSE LET thinking == [s EXCEPT !.isAIMoving = TRUE]
             highestBlueDice == FindHighestRankBlueDice(s).dice
             bestDice == ChooseBestDie(thinking, highestBlueDice)
             moved(bestDie, bestDirection) ==
                 IF Moved(s.dice[bestDie].pos, bestDirection, DieSize) = RedFlagPosition
                 THEN [TriggerWin(thinking, "blue") EXCEPT !.isAIMoving = FALSE]
                 ELSE MoveAIDie(thinking, bestDie, bestDirection)
         IN IF bestDice = {} THEN {s}
            ELSE UNION {LET bestDirections == ChooseBestDirection(thinking, bestDie)
                       IN IF bestDirections = {} THEN {s}
                          ELSE {moved(bestDie, bestDirection) :
                                   bestDirection \in bestDirections} :
                       bestDie \in bestDice}

\* performAIMove(isRolling, gameOver): the states it can leave
PerformAIMove(s, rolling, over) ==
    IF over \/ rolling \/ s.isAIMoving THEN {s}
    ELSE LET thinking == [s EXCEPT !.isAIMoving = TRUE]
             highestBlueDice == FindHighestRankBlueDice(s).dice
             bestDice == ChooseBestDie(thinking, highestBlueDice)
             moved(bestDie, bestDirection) ==
                 IF Moved(s.dice[bestDie].pos, bestDirection, DieSize) = RedFlagPosition
                 THEN [TriggerWin(thinking, "blue") EXCEPT !.isAIMoving = FALSE]
                 ELSE MoveAIDie(thinking, bestDie, bestDirection)
         IN IF bestDice = {} THEN {s}
            ELSE UNION {LET bestDirections == ChooseBestDirection(thinking, bestDie)
                       IN IF bestDirections = {} THEN {s}
                          ELSE {moved(bestDie, bestDirection) :
                                   bestDirection \in bestDirections} :
                       bestDie \in bestDice}

\* variant: the callback ends the AI's turn only when there was no collision
MoveAIDieCompleteAfterHit(s, a) ==
    LET id == a.die
        oldPosition == a.startPosition
        newPosition == a.targetPosition
        hadCollision == Hit(s, id, newPosition) # <<>>
        s1 == CheckCollisions(s, id, newPosition)
    IN IF ~hadCollision
       THEN [s1 EXCEPT !.occupiedPositions =
                           Append(RemoveFirst(@, oldPosition), newPosition),
                       !.blueDiceMoveHistory = RecordDieMove(s1, id),
                       !.isAIMoving = FALSE]
       ELSE s1

\* the onComplete callback moveAIDie passes to Die.roll
MoveAIDieComplete(s, a) ==
    LET id == a.die
        oldPosition == a.startPosition
        newPosition == a.targetPosition
        hadCollision == Hit(s, id, newPosition) # <<>>
        s1 == CheckCollisions(s, id, newPosition)
        s2 == IF ~hadCollision
              THEN [s1 EXCEPT !.occupiedPositions =
                                  Append(RemoveFirst(@, oldPosition), newPosition),
                              !.blueDiceMoveHistory = RecordDieMove(s1, id)]
              ELSE s1
    IN [s2 EXCEPT !.isAIMoving = FALSE]

----------------------------------------------------------------------------
(* A match: the keyboard, the mouse, the opponent's timer and the frames *)

\* initializeSelection in main, called once the GameManager is constructed
InitializeSelection(s) ==
    LET highestDice == FindHighestRankDice(s).dice
    IN IF Len(highestDice) > 0
       THEN UpdateHighlightedDice([s EXCEPT !.selectedDice = <<highestDice[1]>>])
       ELSE s

GameInit ==
    /\ gridSize = 2 * GridHalf
    /\ \E s \in {InitializeSelection(InitializeGame(shuffledPositions)) :
                    shuffledPositions \in ShuffledPositions} :
              /\ dice = s.dice /\ anims = s.anims
              /\ redDice = s.redDice /\ blueDice = s.blueDice
              /\ selectedDice = s.selectedDice
              /\ occupiedPositions = s.occupiedPositions
              /\ isRolling = s.isRolling /\ gameOver = s.gameOver /\ winner = s.winner
              /\ ihIsRolling = s.ihIsRolling /\ ihDetached = s.ihDetached
              /\ ihSelectedDice = s.ihSelectedDice
              /\ pendingRotations = s.pendingRotations
              /\ isAIMoving = s.isAIMoving
              /\ blueDiceMoveHistory = s.blueDiceMoveHistory
    /\ commands = 0
    /\ trail = NoTrail
    /\ rankResult = NoRank
    /\ pathResult = NoPath

\* a handler ran and left state s; a command that changes the state is counted
Handled(s) ==
    IF s = Cur THEN UNCHANGED vars
    ELSE /\ commands < MaxCommands
         /\ Becomes(s)
         /\ commands' = commands + 1
         /\ UNCHANGED <<trail, rankResult, pathResult>>

PressMove(direction) == Handled(KeyMove(Cur, direction))

PressRotate(spin) == Handled(KeyRotate(Cur, spin))

PressDigit(digit) == Handled(KeyDigit(Cur, digit))

Click(target, isCtrlPressed) ==
    Handled(OnClick(Cur, target, isCtrlPressed))

\* gameManager.performAIMove(), run by the timers of the wiring
AITimer == \E s \in PerformAIMove(Cur, isRolling, gameOver) : Handled(s)

\* a frame moves the mesh of roll i on; rolls take the same time, so a roll
\* never overtakes one that started before it
Frame(i) ==
    /\ anims[i].kind = "roll"
    /\ anims[i].phase < PhaseEnd
    /\ \A j \in 1 .. i - 1 : anims[j].kind = "roll" => anims[j].phase > anims[i].phase
    /\ anims' = [anims EXCEPT ![i].phase = @ + 1]
    /\ UNCHANGED <<dice, trail, rankResult, pathResult, gameVars>>

\* the last frame of the oldest animation, and its onComplete callback
LastFrame(onComplete) ==
    /\ anims # <<>>
    /\ Head(anims).onComplete = onComplete
    /\ Head(anims).kind = "roll" => Head(anims).phase = PhaseEnd
    /\ LET a == Head(anims)
           s == [Cur EXCEPT !.dice[a.die] = AnimFinished(@, a), !.anims = Tail(@)]
       IN Becomes(CASE onComplete = "moveDie" -> MoveDieComplete(s, a)
                    [] onComplete = "moveAIDie" -> MoveAIDieComplete(s, a)
                    [] OTHER -> RotationComplete(s, a))
    /\ UNCHANGED <<commands, trail, rankResult, pathResult>>

RollDone == LastFrame("moveDie")

AIRollDone == LastFrame("moveAIDie")

RotationDone == LastFrame("rotateSelectedDice")

Next ==
    \/ \E direction \in Directions : PressMove(direction)
    \/ \E spin \in {"left", "right"} : PressRotate(spin)
    \/ \E digit \in 1 .. 6 : PressDigit(digit)
    \/ \E target \in DOMAIN dice \cup {"none"}, isCtrlPressed \in BOOLEAN :
           Click(target, isCtrlPressed)
    \/ AITimer
    \/ \E i \in 1 .. Len(anims) : Frame(i)
    \/ RollDone
    \/ AIRollDone
    \/ RotationDone

Spec == GameInit /\ [][Next]_vars

----------------------------------------------------------------------------
(* The highest-rank queries over squads of any content *)

MaxSquad == 4

\* the squads createDice would leave with nr red and nb blue dice
RankInit ==
    /\ gridSize = 2 * GridHalf
    /\ \E nr \in 0 .. MaxSquad, nb \in 0 .. MaxSquad :
           /\ nr + nb <= MaxSquad
           /\ redDice = SubSeq(RedIds, 1, nr)
           /\ blueDice = SubSeq(BlueIds, 1, nb)
           /\ dice = [id \in {RedIds[i] : i \in 1 .. nr} \cup {BlueIds[i] : i \in 1 .. nb} |->
                         IF Includes(RedIds, id)
                         THEN LET i == CHOOSE j \in 1 .. nr : RedIds[j] = id
                              IN NewDie(AdjacentPositions[i], FaceValue(i - 1))
                         ELSE LET i == CHOOSE j \in 1 .. nb : BlueIds[j] = id
                              IN NewDie(AdjacentPositions[nr + i], FaceValue(i - 1))]
    /\ anims = <<>> /\ selectedDice = <<>> /\ occupiedPositions = <<>>
    /\ isRolling = FALSE /\ gameOver = FALSE /\ winner = "none"
    /\ ihIsRolling = FALSE /\ ihDetached = FALSE /\ ihSelectedDice = <<>>
    /\ pendingRotations = 0
    /\ isAIMoving = FALSE /\ blueDiceMoveHistory = <<>>
    /\ commands = 0
    /\ trail = NoTrail
    /\ rankResult = NoRank
    /\ pathResult = NoPath

RankUnchanged ==
    UNCHANGED <<gridSize, anims, selectedDice, occupiedPositions, isRolling, gameOver, winner,
                ihIsRolling, ihDetached, ihSelectedDice, pendingRotations, isAIMoving,
                blueDiceMoveHistory, commands, trail, pathResult>>

\* gameManager.findHighestRankDice()
RankRed ==
    /\ rankResult' = LET r == FindHighestRankDice(Cur)
                     IN [squad |-> "red", dice |-> r.dice, rank |-> r.rank]
    /\ UNCHANGED <<dice, redDice, blueDice>>
    /\ RankUnchanged

\* aiManager.findHighestRankBlueDice()
RankBlue ==
    /\ rankResult' = LET r == FindHighestRankBlueDice(Cur)
                     IN [squad |-> "blue", dice |-> r.dice, rank |-> r.rank]
    /\ UNCHANGED <<dice, redDice, blueDice>>
    /\ RankUnchanged

\* the top of a live die becomes v
RankTopChanges(id, v) ==
    /\ dice' = [dice EXCEPT ![id] = SetTopFace(@, v)]
    /\ rankResult' = NoRank
    /\ UNCHANGED <<redDice, blueDice>>
    /\ RankUnchanged

\* a die is spliced out of its squad, as checkCollisions does
RankDieRemoved(id) ==
    /\ redDice' = Remove(redDice, id)
    /\ blueDice' = Remove(blueDice, id)
    /\ dice' = [other \in DOMAIN dice \ {id} |-> dice[other]]
    /\ rankResult' = NoRank
    /\ RankUnchanged

RankNext ==
    \/ RankRed
    \/ RankBlue
    \/ \E id \in DOMAIN dice, v \in 1 .. 6 : RankTopChanges(id, v)
    \/ \E id \in DOMAIN dice : RankDieRemoved(id)

SpecRank == RankInit /\ [][RankNext]_vars

----------------------------------------------------------------------------
(* Resolutions over squads of any size *)

\* squads of 1 .. MaxSquad dice a side, standing on distinct cells off the flags
WinInit ==
    /\ gridSize = 2 * GridHalf
    /\ \E nr \in 1 .. MaxSquad, nb \in 1 .. MaxSquad :
           /\ redDice = SubSeq(RedIds, 1, nr)
           /\ blueDice = SubSeq(BlueIds, 1, nb)
           /\ dice = [id \in {RedIds[i] : i \in 1 .. nr} \cup {BlueIds[i] : i \in 1 .. nb} |->
                         IF Includes(RedIds, id)
                         THEN LET i == CHOOSE j \in 1 .. nr : RedIds[j] = id
                              IN NewDie([x |-> DieSize * i, z |-> StartPosition.z],
                                        FaceValue(i - 1))
                         ELSE LET i == CHOOSE j \in 1 .. nb : BlueIds[j] = id
                              IN NewDie([x |-> DieSize * i, z |-> OppositeStartPos.z],
                                        FaceValue(i - 1))]
           /\ occupiedPositions =
                  <<StartPosition, OppositeStartPos>>
                      \o [i \in 1 .. nr |-> [x |-> DieSize * i, z |-> StartPosition.z]]
                      \o [i \in 1 .. nb |-> [x |-> DieSize * i, z |-> OppositeStartPos.z]]
    /\ anims = <<>> /\ selectedDice = <<>>
    /\ isRolling = FALSE /\ gameOver = FALSE /\ winner = "none"
    /\ ihIsRolling = FALSE /\ ihDetached = FALSE /\ ihSelectedDice = <<>>
    /\ pendingRotations = 0
    /\ isAIMoving = FALSE /\ blueDiceMoveHistory = <<>>
    /\ commands = 0
    /\ trail = NoTrail
    /\ rankResult = NoRank
    /\ pathResult = NoPath

\* checkCollisions(mover, the cell of other), called when the roll of mover
\* has completed on the cell where other stands
WinCollision(mover, other) ==
    /\ Includes(redDice, mover) \/ Includes(blueDice, mover)
    /\ Hit(Cur, mover, dice[other].pos) # <<>>
    /\ Becomes(CheckCollisions(Cur, mover, dice[other].pos))
    /\ UNCHANGED <<commands, trail, rankResult, pathResult>>

\* checkFlagCapture(mover), called when the roll of mover has completed on
\* the flag cell without a collision
WinFlagCapture(mover, flag) ==
    /\ Includes(redDice, mover) \/ Includes(blueDice, mover)
    /\ \A id \in DOMAIN dice :
           (Includes(redDice, id) \/ Includes(blueDice, id)) => dice[id].pos # flag
    /\ Hit(Cur, mover, flag) = <<>>
    /\ Becomes(CheckFlagCapture([Cur EXCEPT !.dice[mover].pos = flag], mover))
    /\ UNCHANGED <<commands, trail, rankResult, pathResult>>

WinNext ==
    \/ \E mover \in DOMAIN dice, other \in DOMAIN dice : WinCollision(mover, other)
    \/ \E mover \in DOMAIN dice, flag \in {StartPosition, OppositeStartPos} :
           WinFlagCapture(mover, flag)

SpecWin == WinInit /\ [][WinNext]_vars

----------------------------------------------------------------------------
(* The set-up of a match on the shipped board *)

\* const gridSize = 10 in main
ShippedGridSize == 10

\* const maxDice = 6 in createDice
ShippedMaxDice == 6

\* GameBoard constructor, for the shipped board
ShippedBoundaryLimit == (CellSize * ShippedGridSize) \div 2 - CellSize \div 2

\* GameBoard.getStartPosition, for the shipped board
ShippedStartPosition == [x |-> 0, z |-> (ShippedGridSize \div 2 - 1) * CellSize]

ShippedOppositeStartPos ==
    [x |-> 0 - ShippedStartPosition.x, z |-> 0 - ShippedStartPosition.z]

\* GameManager.createDice on the shipped board
RECURSIVE ShippedCreateDice(_, _, _, _, _)
ShippedCreateDice(shuffledPositions, i, basePosition, placed, occupied) ==
    IF i > Len(shuffledPositions) \/ Len(placed) >= ShippedMaxDice
    THEN [placed |-> placed, occupied |-> occupied]
    ELSE LET position == [x |-> basePosition.x + shuffledPositions[i].x,
                          z |-> basePosition.z + shuffledPositions[i].z]
         IN IF /\ Abs(position.x) <= ShippedBoundaryLimit
               /\ Abs(position.z) <= ShippedBoundaryLimit
               /\ ~IsPositionOccupied(occupied, position)
            THEN ShippedCreateDice(shuffledPositions, i + 1, basePosition,
                                   Append(placed, position), Append(occupied, position))
            ELSE ShippedCreateDice(shuffledPositions, i + 1, basePosition, placed, occupied)

\* GameManager.initializeGame on the shipped board: the squads, the dice and
\* occupiedPositions
ShippedInitializeGame(shuffledPositions) ==
    LET red == ShippedCreateDice(shuffledPositions, 1, ShippedStartPosition, <<>>,
                                 <<ShippedStartPosition, ShippedOppositeStartPos>>)
        blue == ShippedCreateDice(shuffledPositions, 1, ShippedOppositeStartPos, <<>>,
                                  red.occupied)
        reds == SubSeq(RedIds, 1, Len(red.placed))
        blues == SubSeq(BlueIds, 1, Len(blue.placed))
        ids == {reds[i] : i \in 1 .. Len(reds)} \cup {blues[i] : i \in 1 .. Len(blues)}
        made(id) ==
            IF Includes(reds, id)
            THEN LET i == CHOOSE j \in 1 .. Len(reds) : reds[j] = id
                 IN NewDie(red.placed[i], FaceValue(i - 1))
            ELSE LET i == CHOOSE j \in 1 .. Len(blues) : blues[j] = id
                 IN NewDie(blue.placed[i], FaceValue(i - 1))
    IN [dice |-> [id \in ids |-> UpdateTopFaceFromRotation(made(id))],
        redDice |-> reds,
        blueDice |-> blues,
        occupiedPositions |-> blue.occupied]

SetupInit ==
    /\ gridSize = ShippedGridSize
    /\ \E s \in {ShippedInitializeGame(shuffledPositions) :
                    shuffledPositions \in ShuffledPositions} :
           /\ dice = s.dice
           /\ redDice = s.redDice
           /\ blueDice = s.blueDice
           /\ occupiedPositions = s.occupiedPositions
    /\ anims = <<>> /\ selectedDice = <<>>
    /\ isRolling = FALSE /\ gameOver = FALSE /\ winner = "none"
    /\ ihIsRolling = FALSE /\ ihDetached = FALSE /\ ihSelectedDice = <<>>
    /\ pendingRotations = 0
    /\ isAIMoving = FALSE /\ blueDiceMoveHistory = <<>>
    /\ commands = 0
    /\ trail = NoTrail
    /\ rankResult = NoRank
    /\ pathResult = NoPath

\* initializeSelection(), which main calls once the match is set up
SetupSelection ==
    /\ selectedDice = <<>>
    /\ Becomes(InitializeSelection(Cur))
    /\ UNCHANGED <<commands, trail, rankResult, pathResult>>

SetupNext == SetupSelection

SpecSetup == SetupInit /\ [][SetupNext]_vars

----------------------------------------------------------------------------
(* The AI's move on a wider board, with the dice standing anywhere on it *)

\* half the gridSize of the wider board
SearchGridHalf == 3

\* a position some moves into a match, nothing in flight: two blue dice of
\* the same rank and a red die of the greatest value, the red die on one of
\* the two middle lines of the board, all on distinct cells off the flags
SearchInit ==
    /\ gridSize = 2 * SearchGridHalf
    /\ \E b1, b2, r1 \in Cells(BoundaryLimit) \ {StartPosition, OppositeStartPos} :
           /\ r1.x = 0 \/ r1.z = 0
           /\ b1 # b2 /\ b1 # r1 /\ b2 # r1
           /\ dice = [id \in {"b1", "b2", "r1"} |->
                         UpdateTopFaceFromRotation(
                             CASE id = "b1" -> NewDie(b1, 1)
                               [] id = "b2" -> NewDie(b2, 1)
                               [] OTHER -> NewDie(r1, 6))]
           /\ occupiedPositions = <<StartPosition, OppositeStartPos, r1, b1, b2>>
    /\ redDice = <<"r1">> /\ blueDice = <<"b1", "b2">>
    /\ anims = <<>> /\ selectedDice = <<>>
    /\ isRolling = FALSE /\ gameOver = FALSE /\ winner = "none"
    /\ ihIsRolling = FALSE /\ ihDetached = FALSE /\ ihSelectedDice = <<>>
    /\ pendingRotations = 0
    /\ isAIMoving = FALSE /\ blueDiceMoveHistory = [id \in {} |-> <<>>]
    /\ commands = 0
    /\ trail = NoTrail
    /\ rankResult = NoRank
    /\ pathResult = NoPath

\* the AI's first move from the position
SearchAITimer == commands = 0 /\ AITimer

SearchNext ==
    \/ SearchAITimer
    \/ \E i \in 1 .. Len(anims) : Frame(i)
    \/ AIRollDone

SpecSearch == SearchInit /\ [][SearchNext]_vars

----------------------------------------------------------------------------
(* The AI moving on while the human player does nothing *)

\* how many moves the AI makes
MaxAIMoves == 8

\* a position some moves into a match, nothing in flight: a blue die and a
\* red die of the greatest value on distinct cells off the flags, and no
\* move of the blue die recorded yet
HistoryInit ==
    /\ gridSize = 2 * SearchGridHalf
    /\ \E b1, r1 \in Cells(BoundaryLimit) \ {StartPosition, OppositeStartPos} :
           /\ b1 # r1
           /\ dice = [id \in {"b1", "r1"} |->
                         UpdateTopFaceFromRotation(
                             IF id = "b1" THEN NewDie(b1, 1) ELSE NewDie(r1, 6))]
           /\ occupiedPositions = <<StartPosition, OppositeStartPos, r1, b1>>
    /\ redDice = <<"r1">> /\ blueDice = <<"b1">>
    /\ anims = <<>> /\ selectedDice = <<>>
    /\ isRolling = FALSE /\ gameOver = FALSE /\ winner = "none"
    /\ ihIsRolling = FALSE /\ ihDetached = FALSE /\ ihSelectedDice = <<>>
    /\ pendingRotations = 0
    /\ isAIMoving = FALSE /\ blueDiceMoveHistory = [id \in {} |-> <<>>]
    /\ commands = 0
    /\ trail = NoTrail
    /\ rankResult = NoRank
    /\ pathResult = NoPath

\* gameManager.performAIMove(), run by the timers of the wiring
HistoryAITimer ==
    \E s \in PerformAIMove(Cur, isRolling, gameOver) :
        IF s = Cur THEN UNCHANGED vars
        ELSE /\ commands < MaxAIMoves
             /\ Becomes(s)
             /\ commands' = commands + 1
             /\ UNCHANGED <<trail, rankResult, pathResult>>

HistoryNext ==
    \/ HistoryAITimer
    \/ \E i \in 1 .. Len(anims) : Frame(i)
    \/ AIRollDone

SpecHistory == HistoryInit /\ [][HistoryNext]_vars

----------------------------------------------------------------------------
(* A human move with three dice a side *)

\* the top faces the red dice show
SelectFaces == {1, 2}

\* a position some moves into a match, nothing in flight: three dice a side
\* on distinct cells off the flags, and one red die of highest rank selected
SelectInit ==
    /\ gridSize = 2 * GridHalf
    /\ \E r1, r2, r3, b1, b2, b3 \in Cells(BoundaryLimit) \ {StartPosition, OppositeStartPos} :
       \E f1, f2, f3 \in SelectFaces :
           /\ Cardinality({r1, r2, r3, b1, b2, b3}) = 6
           /\ b1.x < b2.x \/ (b1.x = b2.x /\ b1.z < b2.z)
           /\ b2.x < b3.x \/ (b2.x = b3.x /\ b2.z < b3.z)
           /\ dice = [id \in {"r1", "r2", "r3", "b1", "b2", "b3"} |->
                         UpdateTopFaceFromRotation(
                             CASE id = "r1" -> NewDie(r1, f1)
                               [] id = "r2" -> NewDie(r2, f2)
                               [] id = "r3" -> NewDie(r3, f3)
                               [] id = "b1" -> NewDie(b1, 1)
                               [] id = "b2" -> NewDie(b2, 1)
                               [] OTHER -> NewDie(b3, 1))]
           /\ occupiedPositions = <<StartPosition, OppositeStartPos, r1, r2, r3, b1, b2, b3>>
    /\ redDice = <<"r1", "r2", "r3">> /\ blueDice = <<"b1", "b2", "b3">>
    /\ \E id \in {"r1", "r2", "r3"} :
           /\ Includes(HighestRankOf(dice, redDice).dice, id)
           /\ selectedDice = <<id>>
    /\ anims = <<>>
    /\ isRolling = FALSE /\ gameOver = FALSE /\ winner = "none"
    /\ ihIsRolling = FALSE /\ ihDetached = FALSE /\ ihSelectedDice = <<>>
    /\ pendingRotations = 0
    /\ isAIMoving = FALSE /\ blueDiceMoveHistory = [id \in {} |-> <<>>]
    /\ commands = 0
    /\ trail = NoTrail
    /\ rankResult = NoRank
    /\ pathResult = NoPath

\* the first W, A, S or D from the position
SelectMove(direction) == commands = 0 /\ PressMove(direction)

SelectNext ==
    \/ \E direction \in Directions : SelectMove(direction)
    \/ \E i \in 1 .. Len(anims) : Frame(i)
    \/ RollDone

SpecSelect == SelectInit /\ [][SelectNext]_vars

----------------------------------------------------------------------------
(* A match taken up with two blue dice of equal rank *)

\* a position some moves into a match, nothing in flight: the selected red
\* die and two blue dice showing the same face, on distinct cells off the flags
FlightInit ==
    /\ gridSize = 2 * GridHalf
    /\ \E r1, b1, b2 \in Cells(BoundaryLimit) \ {StartPosition, OppositeStartPos} :
           /\ Cardinality({r1, b1, b2}) = 3
           /\ b1.x < b2.x \/ (b1.x = b2.x /\ b1.z < b2.z)
           /\ dice = [id \in {"r1", "b1", "b2"} |->
                         UpdateTopFaceFromRotation(
                             CASE id = "r1" -> NewDie(r1, 2)
                               [] id = "b1" -> NewDie(b1, 1)
                               [] OTHER -> NewDie(b2, 1))]
           /\ occupiedPositions = <<StartPosition, OppositeStartPos, r1, b1, b2>>
    /\ redDice = <<"r1">> /\ blueDice = <<"b1", "b2">>
    /\ selectedDice = <<"r1">>
    /\ anims = <<>>
    /\ isRolling = FALSE /\ gameOver = FALSE /\ winner = "none"
    /\ ihIsRolling = FALSE /\ ihDetached = FALSE /\ ihSelectedDice = <<>>
    /\ pendingRotations = 0
    /\ isAIMoving = FALSE /\ blueDiceMoveHistory = [id \in {} |-> <<>>]
    /\ commands = 0
    /\ trail = NoTrail
    /\ rankResult = NoRank
    /\ pathResult = NoPath

SpecFlight == FlightInit /\ [][Next]_vars

\* a frame of some roll in flight runs
RollFrame ==
    \/ \E i \in 1 .. Len(anims) : Frame(i)
    \/ RollDone
    \/ AIRollDone

\* the player's moves and the opponent's timer
FairNext ==
    \/ \E direction \in Directions : PressMove(direction)
    \/ AITimer
    \/ RollFrame

\* what a frame of a roll in flight does to the animations: RollFrame, seen
\* on anims alone
FrameRuns ==
    \/ \E i \in 1 .. Len(anims) :
           /\ anims[i].kind = "roll"
           /\ anims[i].phase < PhaseEnd
           /\ \A j \in 1 .. i - 1 : anims[j].kind = "roll" => anims[j].phase > anims[i].phase
           /\ anims' = [anims EXCEPT ![i].phase = @ + 1]
    \/ /\ anims # <<>>
       /\ Head(anims).kind = "roll" => Head(anims).phase = PhaseEnd
       /\ anims' = Tail(anims)

\* requestAnimationFrame keeps calling the animation of a started roll until
\* its last frame has run its onComplete callback
SpecFair == FlightInit /\ [][FairNext]_vars /\ WF_anims(FrameRuns)

----------------------------------------------------------------------------
(* findPath on the shipped board, across a wall of dice *)

\* the world coordinates of the columns of the board
Columns == {x \in -BoundaryLimit .. BoundaryLimit : x % CellSize = 0}

\* the outermost column and row
Edge == (BoundaryLimit \div CellSize) * CellSize

\* the k-th cell, from the west, of a wall along z = 0 that leaves out the
\* column gap
WallCell(k, gap) ==
    LET x == -Edge + CellSize * (k - 1)
    IN [x |-> IF x >= gap THEN x + CellSize ELSE x, z |-> 0]

\* where the searching die stands, on the blue side of the wall
CapStarts == {[x |-> -Edge, z |-> -CellSize],
              [x |-> 0, z |-> -CellSize],
              [x |-> Edge, z |-> -Edge]}

\* a position far into a match on the shipped board, nothing in flight: the
\* blue die b1 on its side of the board, and a wall of the five other blue
\* dice and three red dice across the middle row, open in one column, where
\* a fourth red die may stand
CapInit ==
    /\ gridSize = ShippedGridSize
    /\ \E gap \in Columns, plugged \in BOOLEAN, b1 \in CapStarts :
           LET place == [id \in {"b1", "b2", "b3", "b4", "b5", "b6", "r1", "r2", "r3", "r4"} |->
                            CASE id = "b1" -> b1
                              [] id = "b2" -> WallCell(1, gap)
                              [] id = "b3" -> WallCell(2, gap)
                              [] id = "b4" -> WallCell(3, gap)
                              [] id = "b5" -> WallCell(4, gap)
                              [] id = "b6" -> WallCell(5, gap)
                              [] id = "r1" -> WallCell(6, gap)
                              [] id = "r2" -> WallCell(7, gap)
                              [] id = "r3" -> WallCell(8, gap)
                              [] OTHER -> [x |-> gap, z |-> 0]]
               reds == IF plugged THEN <<"r1", "r2", "r3", "r4">> ELSE <<"r1", "r2", "r3">>
               blues == <<"b1", "b2", "b3", "b4", "b5", "b6">>
               ids == blues \o reds
           IN /\ dice = [id \in {ids[i] : i \in 1 .. Len(ids)} |->
                             UpdateTopFaceFromRotation(NewDie(place[id], 1))]
              /\ redDice = reds /\ blueDice = blues
              /\ occupiedPositions = <<StartPosition, OppositeStartPos>>
                                         \o [i \in 1 .. Len(ids) |-> place[ids[i]]]
    /\ selectedDice = <<"r1">>
    /\ anims = <<>>
    /\ isRolling = FALSE /\ gameOver = FALSE /\ winner = "none"
    /\ ihIsRolling = FALSE /\ ihDetached = FALSE /\ ihSelectedDice = <<>>
    /\ pendingRotations = 0
    /\ isAIMoving = FALSE /\ blueDiceMoveHistory = [id \in {} |-> <<>>]
    /\ commands = 0
    /\ trail = NoTrail
    /\ rankResult = NoRank
    /\ pathResult = NoPath

\* the goals the die searches for: the red flag, the cell beyond the wall at
\* either edge, and the open column of the wall (grid coordinates)
CapGoals(s) ==
    {GridPositionFromWorld(RedFlagPosition),
     GridPositionFromWorld([x |-> -Edge, z |-> CellSize]),
     GridPositionFromWorld([x |-> Edge, z |-> CellSize])}
        \cup {GridPositionFromWorld(c) : c \in {[x |-> x, z |-> 0] : x \in Columns}
                                             \ {s.dice[id].pos : id \in DOMAIN s.dice \ {"r4"}}}

\* findPath(gridPositionFromWorld(die.mesh.position), goal, allowRedDiceInterception)
\* for the die b1
FindPathCall(goal, allowRedDiceInterception) ==
    /\ ~pathResult.called
    /\ LET start == GridPositionOfDie(Cur, "b1")
       IN pathResult' = [start |-> start, goal |-> goal,
                         allowRedDiceInterception |-> allowRedDiceInterception,
                         called |-> TRUE,
                         path |-> FindPath(Cur, start, goal, allowRedDiceInterception)]
    /\ UNCHANGED <<dice, anims, trail, rankResult, gameVars>>

CapNext ==
    \E goal \in CapGoals(Cur), allowRedDiceInterception \in BOOLEAN :
        FindPathCall(goal, allowRedDiceInterception)

SpecCap == CapInit /\ [][CapNext]_vars

----------------------------------------------------------------------------
(* Properties of the orientation record *)

RollNames == {"north", "south", "west", "east"}

\* the face-transposition law of a roll, as the specification states it
TranspositionLaw(o, op) ==
    CASE op = "north" ->
            [o EXCEPT !.top = o.front, !.front = o.bottom, !.bottom = o.back, !.back = o.top]
      [] op = "south" ->
            [o EXCEPT !.top = o.back, !.back = o.bottom, !.bottom = o.front, !.front = o.top]
      [] op = "west" ->
            [o EXCEPT !.top = o.right, !.right = o.bottom, !.bottom = o.left, !.left = o.top]
      [] op = "east" ->
            [o EXCEPT !.top = o.left, !.left = o.bottom, !.bottom = o.right, !.right = o.top]

\* this step is the last frame of a roll of the lone die
RollCompletes ==
    /\ anims # <<>>
    /\ Head(anims).kind = "roll"
    /\ anims' = Tail(anims)

\* C4: a completed roll leaves the orientation record the transposition law
\* gives for the record before the roll, and topFace equal to the new top.
C4_RollFollowsLaw ==
    [][RollCompletes =>
        /\ dice'[Lone].orientation
              = TranspositionLaw(dice[Lone].orientation, OpName(Head(anims)))
        /\ dice'[Lone].topFace = dice'[Lone].orientation.top]_vars

\* C5: opposite faces of the orientation record sum to 7.
C5_OppositeFacesSumToSeven ==
    LET o == dice[Lone].orientation
    IN o.top + o.bottom = 7 /\ o.front + o.back = 7 /\ o.left + o.right = 7

\* a die at rest that has been rolled and turned away from the initial record
C5_RolledAndTurned ==
    LET o == dice[Lone].orientation
    IN ~dice[Lone].isRolling /\ o.top = 3 /\ o.front = 1 /\ o.left = 5

\* C6: the six values of the orientation record are a permutation of 1..6.
C6_RecordIsPermutation ==
    {dice[Lone].orientation[slot] : slot \in FaceSlots} = 1 .. 6

\* C7: four consecutive completed rolls in one direction restore the whole
\* orientation record and topFace.
C7_FourRollsRestore ==
    (Len(trail.ops) = 4 /\ trail.ops[1] \in RollNames)
        => Snapshot(dice[Lone]) = trail.before

\* C8: four consecutive completed rotations with the same spin, and a left
\* rotation followed by a right one (or the reverse), leave the orientation
\* record and topFace unchanged.
C8_RotationsCancel ==
    (\/ Len(trail.ops) = 4 /\ trail.ops[1] \in {"left", "right"}
     \/ trail.ops = <<"left", "right">>
     \/ trail.ops = <<"right", "left">>)
        => Snapshot(dice[Lone]) = trail.before

\* four right rotations have completed on a die whose record is not the initial one
C8_FourRightTurnsDone ==
    /\ trail.ops = <<"right", "right", "right", "right">>
    /\ dice[Lone].orientation.front = 1
    /\ ~dice[Lone].isRolling

----------------------------------------------------------------------------
(* Properties of a match *)

\* this step started a roll of die id with the given onComplete callback
RollStarted(id, onComplete) ==
    /\ Len(anims') = Len(anims) + 1
    /\ anims'[Len(anims')].kind = "roll"
    /\ anims'[Len(anims')].die = id
    /\ anims'[Len(anims')].onComplete = onComplete

\* die id is a live member of the squad and no live die of the squad shows more
LeadsSquad(id, squad) ==
    /\ Includes(squad, id)
    /\ \A i \in 1 .. Len(squad) : dice[squad[i]].topFace <= dice[id].topFace

\* C1: moveDie and performAIMove start a roll only for a die that, when the
\* command is accepted, is a live member of the acting squad and shows the
\* maximum topFace over that squad's live dice.
C1_OnlyLeadersRoll ==
    [][\A id \in DOMAIN dice :
           /\ RollStarted(id, "moveDie") => LeadsSquad(id, redDice)
           /\ RollStarted(id, "moveAIDie") => LeadsSquad(id, blueDice)]_vars

\* a human roll and an AI roll are in flight together
C1_BothSquadsRolling ==
    /\ \E i \in 1 .. Len(anims) : anims[i].onComplete = "moveDie"
    /\ \E i \in 1 .. Len(anims) : anims[i].onComplete = "moveAIDie"

\* C2: while a match goes on, whenever every roll and rotation has completed,
\* every die in selectedDice belongs to the dice findHighestRankDice() returns.
C2_SelectionWithinHighestRank ==
    (anims = <<>> /\ ~gameOver) =>
        \A i \in 1 .. Len(selectedDice) :
            Includes(FindHighestRankDice(Cur).dice, selectedDice[i])

Live == {redDice[i] : i \in 1 .. Len(redDice)} \cup {blueDice[i] : i \in 1 .. Len(blueDice)}

AtRest(id) == InFlight(Cur, id) = {}

OwnFlag(id) == IF Includes(redDice, id) THEN StartPosition ELSE OppositeStartPos

\* C9: no roll is started, by moveDie or by the AI, whose destination is the
\* acting squad's own flag cell, and no live die rests on its own side's flag
\* cell.
C9_NeverOntoOwnFlag ==
    /\ [][\A id \in DOMAIN dice :
              /\ RollStarted(id, "moveDie") =>
                     anims'[Len(anims')].targetPosition # StartPosition
              /\ RollStarted(id, "moveAIDie") =>
                     anims'[Len(anims')].targetPosition # OppositeStartPos]_vars
    /\ [](\A id \in Live : AtRest(id) => dice[id].pos # OwnFlag(id))

\* C10: no two live dice that are at rest occupy the same cell.
C10_OneRestingDiePerCell ==
    \A a \in Live, b \in Live :
        (a # b /\ AtRest(a) /\ AtRest(b)) => dice[a].pos # dice[b].pos

\* a collision has destroyed dice, the match goes on and every die is at rest
C10_CollisionResolved ==
    /\ Cardinality(Live) < Cardinality(DOMAIN dice)
    /\ ~gameOver
    /\ anims = <<>>
    /\ redDice # <<>> /\ blueDice # <<>>

----------------------------------------------------------------------------
(* Properties of the highest-rank queries *)

\* the top faces of a squad, in squad order
Faces(squad) == [i \in 1 .. Len(squad) |-> dice[squad[i]].topFace]

\* the largest top face of a squad, 0 for the empty squad
MaxFace(squad) ==
    IF squad = <<>> THEN 0
    ELSE CHOOSE m \in {dice[squad[i]].topFace : i \in 1 .. Len(squad)} :
             \A i \in 1 .. Len(squad) : dice[squad[i]].topFace <= m

\* the answer names each live die of the squad showing rank once, and no other
ExactlyThoseShowing(answer, squad, rank) ==
    /\ {answer[i] : i \in 1 .. Len(answer)} =
           {squad[i] : i \in 1 .. Len(squad)} \cap {id \in DOMAIN dice : dice[id].topFace = rank}
    /\ \A i \in 1 .. Len(answer), j \in 1 .. Len(answer) : answer[i] = answer[j] => i = j

AnsweredFor(squad) ==
    /\ rankResult.rank = MaxFace(squad)
    /\ ExactlyThoseShowing(rankResult.dice, squad, rankResult.rank)
    /\ Faces(squad) = <<2, 4, 4, 6>> =>
           rankResult.rank = 6 /\ Len(rankResult.dice) = 1
    /\ Faces(squad) = <<2, 4, 4, 3>> =>
           rankResult.rank = 4 /\ Len(rankResult.dice) = 2

\* C3: for every squad content, findHighestRankDice and findHighestRankBlueDice
\* return the maximum topFace over the squad's live dice (0 when the squad is
\* empty) and exactly the live dice showing it; faces 2,4,4,6 give rank 6 with
\* one die and faces 2,4,4,3 give rank 4 with two dice.
C3_HighestRankIsMaximum ==
    /\ rankResult.squad = "red" => AnsweredFor(redDice)
    /\ rankResult.squad = "blue" => AnsweredFor(blueDice)

\* the example squad after its 6 became a 3
C3_TieAfterTopChange ==
    /\ rankResult.squad = "red"
    /\ Faces(redDice) = <<2, 4, 4, 3>>
    /\ rankResult.rank = 4
    /\ rankResult.dice = <<redDice[2], redDice[3]>>

----------------------------------------------------------------------------
(* Properties of moves and their resolutions *)

\* gridSize*cellSize/2 - cellSize/2, written out
StatedLimit == (GridSize * CellSize) \div 2 - CellSize \div 2

OnBoard(position) == Abs(position.x) <= StatedLimit /\ Abs(position.z) <= StatedLimit

\* C11: every live die at rest is on a cell with |x| and |z| both at most
\* gridSize*cellSize/2 - cellSize/2, and no roll is started towards a cell
\* outside that range.
C11_DiceStayOnBoard ==
    /\ [](\A id \in Live : AtRest(id) => OnBoard(dice[id].pos))
    /\ [][\A id \in DOMAIN dice :
              (RollStarted(id, "moveDie") \/ RollStarted(id, "moveAIDie")) =>
                  OnBoard(anims'[Len(anims')].targetPosition)]_vars

\* a red die has completed a roll onto a cell at the edge of the board
C11_RestsAtEdgeAfterRoll ==
    /\ anims = <<>>
    /\ occupiedPositions # <<>>
    /\ \E id \in Live :
           /\ Includes(redDice, id)
           /\ dice[id].pos = occupiedPositions[Len(occupiedPositions)]
           /\ \E direction \in Directions : ~OnBoard(Moved(dice[id].pos, direction, DieSize))

\* the die a move command acts on is a live red die
ActsOnRedDie == selectedDice # <<>> /\ Includes(redDice, selectedDice[1])

Candidate(direction) == Moved(dice[selectedDice[1]].pos, direction, DieSize)

\* another live red die stands on the position
HeldByRedDie(position) ==
    \E i \in 1 .. Len(redDice) :
        /\ redDice[i] # selectedDice[1]
        /\ AtRest(redDice[i])
        /\ dice[redDice[i]].pos = position

FailsGate(direction) ==
    /\ ActsOnRedDie
    /\ ~OnBoard(Candidate(direction)) \/ HeldByRedDie(Candidate(direction))

\* C12: a human move command whose candidate cell is out of bounds or held by
\* a die of the same squad changes no die, neither squad, occupiedPositions,
\* selectedDice, isRolling, gameOver nor winner, and starts no roll.
C12_RejectedMoveIsNoOp ==
    \A direction \in Directions :
        FailsGate(direction) =>
            LET s == KeyMove(Cur, direction)
            IN /\ s.dice = dice /\ s.anims = anims
               /\ s.redDice = redDice /\ s.blueDice = blueDice
               /\ s.occupiedPositions = occupiedPositions
               /\ s.selectedDice = selectedDice
               /\ s.isRolling = isRolling /\ s.gameOver = gameOver /\ s.winner = winner

\* the gate is reached: nothing rolls, the selected die has the highest rank,
\* one neighbouring cell is off the board and another is held by a red die
C12_GateReachedAndFails ==
    /\ ActsOnRedDie
    /\ ~isRolling /\ ~ihIsRolling /\ ~gameOver
    /\ IsHighestRankDie(Cur, selectedDice[1])
    /\ \E direction \in Directions : ~OnBoard(Candidate(direction))
    /\ \E direction \in Directions : HeldByRedDie(Candidate(direction))

Opposing(a, b) ==
    \/ Includes(redDice, a) /\ Includes(blueDice, b)
    \/ Includes(blueDice, a) /\ Includes(redDice, b)

\* C13: when a live die completes a roll onto a cell on which a live opposing
\* die stands, the resolution removes exactly the mover and that opposing die
\* from the squads.
C13_MutualDestruction ==
    [][RollCompletes =>
           LET mover == Head(anims).die
           IN \A other \in Live :
                  (/\ Opposing(mover, other)
                   /\ AtRest(other)
                   /\ dice[other].pos = Head(anims).targetPosition)
                      => Live' = Live \ {mover, other}]_vars

\* one red and one blue die have been destroyed and nobody has won
C13_PairDestroyed ==
    /\ winner = "none"
    /\ anims = <<>>
    /\ Cardinality({id \in DOMAIN dice \ Live : Includes(RedIds, id)}) = 1
    /\ Cardinality({id \in DOMAIN dice \ Live : Includes(BlueIds, id)}) = 1

\* C14: when a live red die completes a roll, started by moveDie, whose
\* destination is the blue flag cell while the match goes on, the resolution
\* ends the match: gameOver is true, the winner is red and the blue squad is
\* empty, whatever else stands on the flag cell.
C14_FlagCaptureEndsMatch ==
    [][(/\ RollCompletes
        /\ Head(anims).onComplete = "moveDie"
        /\ Head(anims).targetPosition = OppositeStartPos
        /\ Includes(redDice, Head(anims).die)
        /\ ~gameOver)
           => (gameOver' /\ winner' = "red" /\ blueDice' = <<>>)]_vars

----------------------------------------------------------------------------
(* Properties of the end of a match *)

\* C15: while gameOver is false, a resolution that leaves the red squad empty
\* and the blue squad non-empty sets gameOver with winner blue, and one that
\* leaves the blue squad empty and the red squad non-empty sets gameOver with
\* winner red.
C15_EliminationDecidesWinner ==
    [][~gameOver =>
           /\ (redDice' = <<>> /\ blueDice' # <<>>) => (gameOver' /\ winner' = "blue")
           /\ (blueDice' = <<>> /\ redDice' # <<>>) => (gameOver' /\ winner' = "red")]_vars

\* collisions alone have eliminated the red squad: blue dice remain and no die
\* stands on a flag cell
C15_RedEliminatedByCollisions ==
    /\ redDice = <<>> /\ blueDice # <<>>
    /\ gameOver /\ winner = "blue"
    /\ \A id \in DOMAIN dice : dice[id].pos \notin {StartPosition, OppositeStartPos}

\* C16: a collision that destroys the last die of both squads at once marks
\* the match over, and winner stays null (a draw).
C16_DrawWhenBothEliminated ==
    [][(~gameOver /\ redDice # <<>> /\ blueDice # <<>> /\ redDice' = <<>> /\ blueDice' = <<>>)
           => (gameOver' /\ winner' = "none")]_vars

SameMatch(s) ==
    /\ s.anims = anims
    /\ s.gameOver = gameOver /\ s.winner = winner
    /\ s.redDice = redDice /\ s.blueDice = blueDice
    /\ \A id \in DOMAIN dice : s.dice[id].pos = dice[id].pos

\* C18: once gameOver is true, a call of moveDie, or of performAIMove given
\* the current gameOver, starts no roll and changes neither winner, gameOver,
\* any die's position nor either squad.
C18_NoMoveAfterGameOver ==
    gameOver =>
        /\ \A direction \in Directions : SameMatch(MoveDie(Cur, direction))
        /\ \A s \in PerformAIMove(Cur, isRolling, gameOver) : SameMatch(s)

\* the match is over and, but for that, moveDie would roll the selected die
C18_OnlyGameOverStopsTheMove ==
    /\ gameOver /\ ~isRolling
    /\ selectedDice # <<>>
    /\ Includes(redDice, selectedDice[1])
    /\ IsHighestRankDie(Cur, selectedDice[1])
    /\ \E direction \in Directions : CanDieMove(Cur, selectedDice[1], direction)

Entries(position) ==
    Cardinality({i \in 1 .. Len(occupiedPositions) : occupiedPositions[i] = position})

\* C19: in every reachable state (taken here while the match has not ended)
\* the number of entries of occupiedPositions, the two entries set-up makes
\* for the flag cells excluded, is the number of live red dice plus the number
\* of live blue dice, and the cell of each live die at rest appears exactly
\* once in occupiedPositions.
C19_LedgerMatchesLiveDice ==
    ~gameOver =>
        /\ Len(occupiedPositions) - 2 = Len(redDice) + Len(blueDice)
        /\ \A id \in Live :
               (AtRest(id) /\ dice[id].pos \notin {StartPosition, OppositeStartPos})
                   => Entries(dice[id].pos) = 1

EntriesIn(ledger, position) ==
    Cardinality({i \in 1 .. Len(ledger) : ledger[i] = position})

\* the cell a die is entered under: where it stands, or where its roll began
LedgerCell(id) ==
    IF AtRest(id) THEN dice[id].pos
    ELSE LET i == CHOOSE j \in InFlight(Cur, id) : \A k \in InFlight(Cur, id) : j <= k
         IN anims[i].startPosition

CollisionResolves(mover, other) ==
    /\ RollCompletes
    /\ mover = Head(anims).die
    /\ mover \in Live /\ other \in Live /\ mover # other
    /\ mover \notin Live' /\ other \notin Live'

\* C20: after a collision resolves, for a human and for an AI mover,
\* occupiedPositions holds no entry for the destroyed mover (the entry of its
\* origin is removed and none is added for its destination) and none for the
\* destroyed opposing die.
C20_CollisionClearsLedger ==
    [][\A mover, other \in DOMAIN dice :
           CollisionResolves(mover, other) =>
               LET origin == Head(anims).startPosition
                   destination == Head(anims).targetPosition
                   gone == {origin, LedgerCell(other)}
               IN /\ \A cell \in gone :
                         EntriesIn(occupiedPositions', cell)
                             = EntriesIn(occupiedPositions, cell) - 1
                  /\ EntriesIn(occupiedPositions', destination)
                         <= EntriesIn(occupiedPositions, destination)]_vars

----------------------------------------------------------------------------
(* Properties of commands *)

\* the dice for which a command has started a roll
RollsStartedBy(s) ==
    {s.anims[i].die : i \in {j \in Len(anims) + 1 .. Len(s.anims) : s.anims[j].kind = "roll"}}

MultiSelection ==
    /\ Len(selectedDice) > 1
    /\ \A i \in 1 .. Len(selectedDice) :
           /\ Includes(redDice, selectedDice[i])
           /\ IsHighestRankDie(Cur, selectedDice[i])
           /\ AtRest(selectedDice[i])

PassesGate(id, direction) ==
    /\ CanDieMove(Cur, id, direction)
    /\ RollAccepted(dice[id], direction, BoundaryLimit)

\* C21: when selectedDice holds several highest-rank red dice, a move command
\* moves all of them together if every one passes the legality gate, and
\* moves none of them otherwise.
C21_MultiSelectMovesAllOrNone ==
    (MultiSelection /\ ~isRolling /\ ~ihIsRolling /\ ~gameOver) =>
        \A direction \in Directions :
            LET selection == {selectedDice[i] : i \in 1 .. Len(selectedDice)}
                moved == RollsStartedBy(KeyMove(Cur, direction))
            IN IF \A id \in selection : PassesGate(id, direction)
               THEN moved = selection
               ELSE moved = {}

\* the roll at the head of anims completes while the die other is in flight
\* the opposite way between the same two cells
SwapCompletes(first, other) ==
    /\ RollCompletes
    /\ first = Head(anims).die
    /\ Opposing(first, other)
    /\ \E i \in 2 .. Len(anims) :
           /\ anims[i].die = other /\ anims[i].kind = "roll"
           /\ anims[i].startPosition = Head(anims).targetPosition
           /\ anims[i].targetPosition = Head(anims).startPosition

\* C22: when a red die rolling from cell A to the adjacent cell B and a blue
\* die rolling from B to A are in flight at overlapping times, the collision
\* is detected and both dice are destroyed: the first of the two rolls to
\* complete removes both, the only resolution at which they can meet.
C22_SwapIsACollision ==
    [][\A first, other \in DOMAIN dice :
           SwapCompletes(first, other) => (first \notin Live' /\ other \notin Live')]_vars

----------------------------------------------------------------------------
(* Properties of the calls a die accepts *)

\* C23: Die.roll and Die.rotateInPlace on a die whose isRolling is true are
\* refused (the only steps of a die in transition are refusals, which change
\* nothing, and its completion); an accepted call keeps isRolling true until
\* its completion, which sets it back to false, once.
C23_BusyDieRefusesCalls ==
    /\ [](dice[Lone].isRolling =>
              /\ \A direction \in Directions :
                     ~RollAccepted(dice[Lone], direction, DieBoundaryLimit)
              /\ ~RotateAccepted(dice[Lone]))
    /\ [](dice[Lone].isRolling <=> Len(anims) = 1)
    /\ [](~dice[Lone].isRolling <=> anims = <<>>)
    /\ [][(dice[Lone].isRolling /\ dice'[Lone] # dice[Lone])
              => (anims' = <<>> /\ ~dice'[Lone].isRolling)]_vars

\* a transition has completed and the die has accepted the next call
C23_AcceptedAfterCompletion ==
    /\ trail.ops # <<>>
    /\ dice[Lone].isRolling
    /\ Len(anims) = 1

\* a die of the selection is in the middle of a roll or a rotation
SelectionInTransition ==
    \E i \in 1 .. Len(IhSelected(Cur)) : dice[IhSelected(Cur)[i]].isRolling

\* C24: a human command that targets a die in mid-transition (a Q/E rotate
\* command while the selected die is rolling) is rejected and leaves all
\* state unchanged, so that once no transition is in flight the human busy
\* flags, GameManager.isRolling and the input handler's dice.isRolling, are
\* false.
C24_BusyCommandChangesNothing ==
    /\ SelectionInTransition =>
           \A spin \in {"left", "right"} : KeyRotate(Cur, spin) = Cur
    /\ anims = <<>> => (~isRolling /\ ~ihIsRolling)

\* C25: after gameOver has become true every human command delivered through
\* the input handler is rejected; in particular, a Q/E rotate command on a
\* selected red die starts no rotation and leaves every die's orientation and
\* the selection unchanged.
C25_NoRotationAfterGameOver ==
    (/\ gameOver
     /\ IhSelected(Cur) # <<>>
     /\ \A i \in 1 .. Len(IhSelected(Cur)) : Includes(redDice, IhSelected(Cur)[i])) =>
        \A spin \in {"left", "right"} :
            LET s == KeyRotate(Cur, spin)
            IN /\ s.anims = anims
               /\ s.dice = dice
               /\ s.selectedDice = selectedDice
               /\ s.ihSelectedDice = ihSelectedDice /\ s.ihDetached = ihDetached

\* the zero vector and the four diagonals
OffAxisDirections ==
    {[x |-> 0, z |-> 0]} \cup {[x |-> dx, z |-> dz] : dx \in {-1, 1}, dz \in {-1, 1}}

\* C26: Die.roll called with a direction that is not one of the four unit
\* axis vectors (a diagonal or the zero vector) is rejected before any state
\* change: it returns false and leaves the die as it was.
C26_OffAxisRollRejected ==
    \A direction \in OffAxisDirections :
        /\ ~RollAccepted(dice[Lone], direction, DieBoundaryLimit)
        /\ Roll(dice[Lone], direction, DieBoundaryLimit) = dice[Lone]

----------------------------------------------------------------------------
(* Properties of the set-up *)

\* C27: after set-up with the shipped parameters (dieSize 2, gridSize 10)
\* each of the two squads consists of exactly six live dice.
C27_SixDiceASide ==
    Len(redDice) = 6 /\ Len(blueDice) = 6

----------------------------------------------------------------------------
(* Properties of the AI's search *)

GridCells ==
    {c \in [x : -GridSize .. GridSize, z : -GridSize .. GridSize] :
        IsPositionWithinBoundaries(c)}

\* a cell a path to goal may enter: no blue die, not the blue flag, and a
\* red die only on the goal itself
Enterable(cell, goal) ==
    /\ ~IsPositionOccupiedBySameColor(Cur, cell, TRUE)
    /\ WorldPositionFromGrid(cell) # BlueFlagPosition
    /\ IsPositionOccupiedBySameColor(Cur, cell, FALSE) => cell = goal

\* the cells of targets nearest to goal, going through the cells of open only;
\* seen holds the cells within some number of steps of goal
RECURSIVE NearestTo(_, _, _)
NearestTo(targets, open, seen) ==
    IF seen \cap targets # {} THEN seen \cap targets
    ELSE LET grown == seen \cup {c \in open : \E n \in seen :
                                                CalculateManhattanDistance(c, n) = 1}
         IN IF grown = seen THEN {} ELSE NearestTo(targets, open, grown)

\* the first steps of the shortest paths from the die's cell to the red flag
ShortestFirstSteps(id) ==
    LET start == GridPositionOfDie(Cur, id)
        goal == GridPositionFromWorld(RedFlagPosition)
        open == {c \in GridCells : Enterable(c, goal)}
        next == {n \in open : CalculateManhattanDistance(start, n) = 1}
        best == NearestTo(next, open, {goal} \cap open)
    IN {[x |-> n.x - start.x, z |-> n.z - start.z] : n \in best}

OffensiveMode(id) ==
    ~(ThreatAbove(Cur, 1)
      /\ CalculateDistanceToBlueFlag(Cur, id) < CalculateDistanceToRedFlag(Cur, id))

\* C28: whenever the AI may act, for a blue die in offensive mode (threat at
\* most 1, or the die not nearer its own flag than the red flag) from whose
\* cell a path to the red flag exists, chooseBestDirection returns a
\* direction, and it is the first
\* step of a path of the least number of steps.
C28_OffensiveStepIsShortest ==
    (~gameOver /\ ~isRolling /\ ~isAIMoving) =>
    \A i \in 1 .. Len(blueDice) :
        LET id == blueDice[i]
            steps == ShortestFirstSteps(id)
            chosen == ChooseBestDirection(Cur, id)
        IN (OffensiveMode(id) /\ steps # {}
            /\ GridPositionOfDie(Cur, id) # GridPositionFromWorld(RedFlagPosition))
           => chosen # {} /\ chosen \subseteq steps

\* the AI has just sent a die in offensive mode round an obstacle: its roll
\* starts along a shortest path to the red flag, which is longer than the
\* distance to the flag
C28_OffensiveDetour ==
    /\ Len(anims) = 1
    /\ LET a == Head(anims)
       IN /\ a.onComplete = "moveAIDie"
          /\ a.phase = PhaseStart
          /\ OffensiveMode(a.die)
          /\ a.direction \in ShortestFirstSteps(a.die)
          /\ Len(FindPathToTarget(Cur, a.die, RedFlagPosition)) - 1
                 > CalculateDistanceToRedFlag(Cur, a.die)

\* the paths the pathfinder returns when the AI acts and blue die id is among
\* its candidates: the path to the red flag, and the interception paths if
\* the die is compared with another candidate or is in defensive mode
PathsOf(id) ==
    LET candidates == FindHighestRankBlueDice(Cur).dice
        pathToFlag == FindPathToTarget(Cur, id, RedFlagPosition)
    IN IF ~Includes(candidates, id) THEN <<>>
       ELSE (IF pathToFlag = <<>> THEN <<>> ELSE <<pathToFlag>>)
                \o (IF Len(candidates) > 1 \/ ~OffensiveMode(id)
                    THEN FindInterceptionPaths(Cur, id)
                    ELSE <<>>)

\* C29: whenever the AI may act, no path the pathfinder returns for a blue die
\* has the cell of a red die before its last cell.
C29_RedDieOnlyAtPathEnd ==
    (~gameOver /\ ~isRolling /\ ~isAIMoving) =>
    \A i \in 1 .. Len(blueDice) :
        LET paths == PathsOf(blueDice[i])
        IN \A p \in 1 .. Len(paths) : \A k \in 1 .. Len(paths[p]) - 1 :
               ~IsPositionOccupiedBySameColor(Cur, paths[p][k], FALSE)

\* chooseBestDirection follows an interception path for die id
HeadsForInterception(id) ==
    ~OffensiveMode(id) /\ Len(FindInterceptionPaths(Cur, id)) > 0

\* chooseBestDirection follows the path to the red flag for die id
HeadsForRedFlag(id) ==
    ~HeadsForInterception(id) /\ FindPathToTarget(Cur, id, RedFlagPosition) # <<>>

\* C30: whenever the AI may act with more than one candidate die, the die the
\* defensive ordering puts first (chosen if the threat is above 3, or above 1
\* and the draw says so) is sent along an interception path, and the die the
\* offensive ordering puts first (chosen otherwise) along the path to the
\* red flag.
C30_DirectionFollowsDieChoice ==
    LET candidates == FindHighestRankBlueDice(Cur).dice
    IN (~gameOver /\ ~isRolling /\ ~isAIMoving /\ Len(candidates) > 1) =>
       /\ ThreatAbove(Cur, 1) =>
              HeadsForInterception(FirstLeast(candidates, LAMBDA id : DefensiveKey(Cur, id)))
       /\ ~ThreatAbove(Cur, 3) =>
              HeadsForRedFlag(FirstLeast(candidates, LAMBDA id : OffensiveKey(Cur, id)))

----------------------------------------------------------------------------
(* Properties of the AI's move history *)

\* the last six entries of a history
LastSix(history) ==
    IF Len(history) > 6 THEN SubSeq(history, Len(history) - 5, Len(history)) ELSE history

\* the history of die id changes in this step
HistoryChanges(id) ==
    History([blueDiceMoveHistory |-> blueDiceMoveHistory'], id) # History(Cur, id)

\* C31: the move history of a die never holds more than 6 positions, and it
\* changes only when a roll that moveAIDie started for that die completes
\* without a collision, by the cell the die has come to rest on being added
\* at its end (the oldest entry being dropped beyond six).
C31_HistoryRecordsCompletedMoves ==
    /\ [](\A id \in DOMAIN blueDiceMoveHistory : Len(blueDiceMoveHistory[id]) <= 6)
    /\ [][\A id \in DOMAIN blueDiceMoveHistory' :
             HistoryChanges(id) =>
                 /\ anims # <<>> /\ anims' = Tail(anims)
                 /\ Head(anims).die = id
                 /\ Head(anims).kind = "roll"
                 /\ Head(anims).onComplete = "moveAIDie"
                 /\ Includes(blueDice', id)
                 /\ redDice' = redDice /\ blueDice' = blueDice
                 /\ dice'[id].pos = Head(anims).targetPosition
                 /\ dice'[id].pos # dice[id].pos
                 /\ blueDiceMoveHistory'[id] =
                        LastSix(Append(History(Cur, id), dice'[id].pos))]_vars

\* the AI has moved its die as often as the model lets it, every move was
\* recorded and the history holds six positions: the oldest were dropped
C31_HistoryIsFull ==
    /\ commands = MaxAIMoves /\ anims = <<>> /\ ~gameOver
    /\ blueDice = <<"b1">>
    /\ Len(History(Cur, "b1")) = 6
    /\ History(Cur, "b1")[6] = dice["b1"].pos

----------------------------------------------------------------------------
(* Properties of the selection *)

\* C32: when a step destroys a selected die and leaves the red squad at
\* least one die, the selection afterwards is not empty and holds only dice
\* of the highest rank of the squad.
C32_AutoSelectAfterLoss ==
    [][((\E i \in 1 .. Len(selectedDice) :
             Includes(redDice, selectedDice[i]) /\ ~Includes(redDice', selectedDice[i]))
        /\ Len(redDice') >= 1)
       => /\ Len(selectedDice') >= 1
          /\ \A i \in 1 .. Len(selectedDice') :
                 Includes(HighestRankOf(dice', redDice').dice, selectedDice'[i])]_vars

----------------------------------------------------------------------------
(* Properties of the record against the mesh *)

\* C33: whenever the die is at rest, each slot of the orientation record
\* names the pip value of the face of the mesh that points in that direction.
C33_RecordMatchesMesh ==
    ~dice[Lone].isRolling => dice[Lone].orientation = dice[Lone].rot

\* this step is the last frame of an in-place rotation of die id, and nothing
\* else has turned the mesh of the die since the rotation began
RotationCompletes(id) ==
    /\ anims # <<>>
    /\ Head(anims).kind = "rotate"
    /\ Head(anims).die = id
    /\ dice[id].rot = Head(anims).initialRotation
    /\ anims' = Tail(anims)

\* C34: the completion of an in-place rotation, with either spin, leaves the
\* position of the die, the top and bottom of its orientation record and its
\* topFace as they were, and so the dice of highest rank of a squad holding it.
C34_RotationKeepsTopAndPlace ==
    [][RotationCompletes(Lone) =>
          /\ dice'[Lone].pos = dice[Lone].pos
          /\ dice'[Lone].orientation.top = dice[Lone].orientation.top
          /\ dice'[Lone].orientation.bottom = dice[Lone].orientation.bottom
          /\ dice'[Lone].topFace = dice[Lone].topFace
          /\ HighestRankOf(dice', <<Lone>>) = HighestRankOf(dice, <<Lone>>)]_vars

\* a right rotation has just completed on a die away from the place and the
\* top it was made with: its side faces have moved, its top has not
C34_TurnedAfterRoll ==
    /\ trail.ops = <<"right">>
    /\ ~dice[Lone].isRolling
    /\ dice[Lone].topFace = trail.before.topFace
    /\ dice[Lone].orientation.front # trail.before.orientation.front
    /\ dice[Lone].orientation.top = trail.before.orientation.top

----------------------------------------------------------------------------
(* Properties of dice destroyed by a collision *)

\* C35: a die destroyed by a collision, as the mover or as the die that was
\* hit, is taken out of selectedDice by the resolution of that collision.
C35_CollisionDeselectsDestroyedDie ==
    [][\A mover, other \in DOMAIN dice :
           CollisionResolves(mover, other) =>
               \A i \in 1 .. Len(selectedDice') :
                   selectedDice'[i] \notin {mover, other}]_vars

----------------------------------------------------------------------------
(* Properties of rolls in flight *)

\* the rolls in flight of the dice of one side
RollsInFlight(ids) ==
    {i \in 1 .. Len(anims) :
        anims[i].kind = "roll" /\ \E k \in 1 .. Len(ids) : ids[k] = anims[i].die}

\* a roll is started by this step with the given completion callback
StartsRoll(onComplete) ==
    /\ Len(anims') = Len(anims) + 1
    /\ anims'[Len(anims')].kind = "roll"
    /\ anims'[Len(anims')].onComplete = onComplete

DestroyedDieLands ==
    /\ RollCompletes
    /\ Head(anims).die \notin Live

\* C37: the completion of the roll of a die that was destroyed in mid-roll
\* changes no game state: it adds no entry to occupiedPositions, removes no
\* die from a squad, and changes neither gameOver nor winner.
C37_DestroyedDieLandsIdly ==
    [][DestroyedDieLands =>
          /\ \A cell \in Cells(BoundaryLimit) :
                 EntriesIn(occupiedPositions', cell) <= EntriesIn(occupiedPositions, cell)
          /\ redDice' = redDice /\ blueDice' = blueDice
          /\ gameOver' = gameOver /\ winner' = winner]_vars

----------------------------------------------------------------------------
(* Properties of the AI's turn *)

\* C38: a performAIMove that sets isAIMoving sets it back to false: at once
\* when it finds no die or no direction, captures the flag or cannot start
\* the roll, so that isAIMoving stays true only when a roll was started; and
\* when that roll completes, with or without a collision, given that started
\* animations run to their end.
C38_AITurnEnds ==
    /\ isAIMoving ~> ~isAIMoving
    /\ [][(~isAIMoving /\ isAIMoving') => StartsRoll("moveAIDie")]_vars

\* the AI's turn is over twice: after a roll that came to rest and was
\* recorded, and after a roll that ended in a collision with the red die
\* (which never moved: it is still the selection)
C38_TurnOverAfterCollision ==
    /\ ~isAIMoving
    /\ anims = <<>>
    /\ commands = MaxCommands
    /\ redDice = <<>> /\ Len(blueDice) = 1
    /\ selectedDice = <<"r1">>
    /\ \E id \in DOMAIN blueDiceMoveHistory : Len(blueDiceMoveHistory[id]) = 1

----------------------------------------------------------------------------
(* Properties of findPath on the shipped board *)

\* a cell getNeighbors lets a search for goal enter
Passable(cell, goal, allowRedDiceInterception) ==
    /\ IsPositionWithinBoundaries(cell)
    /\ ~IsPositionOccupiedBySameColor(Cur, cell, TRUE)
    /\ IsPositionOccupiedBySameColor(Cur, cell, FALSE)
           => (allowRedDiceInterception \/ cell = goal)
    /\ WorldPositionFromGrid(cell) # BlueFlagPosition

\* a 4-connected path leads from start to goal through passable cells
PathExists(start, goal, allowRedDiceInterception) ==
    LET open == {c \in GridCells : Passable(c, goal, allowRedDiceInterception)}
    IN NearestTo({goal}, open, {start}) # {}

\* C39: on the shipped board (gridSize 10, 81 cells) findPath returns null
\* only when no 4-connected path leads from start to goal through the cells
\* getNeighbors allows, and a path when one exists: the cap of 100 iterations
\* cuts off no search.
C39_NullOnlyWithoutPath ==
    pathResult.called =>
        /\ Cardinality(GridCells) = 81
        /\ pathResult.path = <<>>
               <=> ~PathExists(pathResult.start, pathResult.goal,
                               pathResult.allowRedDiceInterception)

\* a search that had to go round the whole wall found its path
C39_FoundRoundTheWall ==
    /\ pathResult.called
    /\ pathResult.path # <<>>
    /\ Len(pathResult.path) - 1
           >= CalculateManhattanDistance(pathResult.start, pathResult.goal) + 2 * (GridSize - 2)

============================================================================
